---- MODULE Spec2Model ----
(***************************************************************************)
(* Model of the udb-cli knowledge base: the file lock (KBLock), the SQLite *)
(* storage layer (kb_sources, kb_chunks) and the ingestion orchestrator    *)
(* (ingestUrl, updateUrl, ingestContent, updateContent, deleteKBSource).   *)
(*                                                                         *)
(* A "call" is one invocation of a public operation.  Each call belongs to *)
(* an OS process; several calls of one process overlap at their awaits     *)
(* (extractContent, generateEmbeddingsBatch).  The synchronous code        *)
(* between two awaits is one action.                                       *)
(***************************************************************************)
EXTENDS Integers, Sequences, FiniteSets, TLC

\* ------------------------------------------------------------------ bounds
NumCalls == 2          \* calls made in one run (each runs once)
NumProcs == 2          \* OS processes the calls are made from
NumSites == 2          \* distinct normalized URLs
NumBodies == 3         \* distinct cleaned contents (body 0 fails the quality gate)
MaxAge == 3            \* clock ticks a lock file's age is followed for
NumSlots == 3          \* chunk rows the database holds when search is called
MaxLimit == 2          \* largest `limit` a search is called with
MaxInputs == 21        \* most texts one generateEmbeddingsBatch call is given
MaxWww == 2            \* most "www." prefixes of a URL text
MaxSlashes == 2        \* most slashes at the end of a URL text's path
MaxTextLen == 7        \* most characters of a text given to chunkText
MaxWords == 4          \* most words of a content given to validateContent
MaxChunkRows == 2      \* chunk rows inserted by direct calls of createChunk
MaxLoopLen == 5        \* most characters of a text whose chunkText loop is followed
NumTexts == 3          \* distinct 500-character prefixes of the texts embedded
CacheMax == 2          \* entries the embedding cache holds (max: 1000 in the
                       \* code; small here, so that the cache fills up)

\* --------------------------------------------------------------- constants
\* part_001:51  const STALE_AGE_MS = 15 * 60 * 1000
STALE_AGE_MS == 15 * 60 * 1000
\* one clock tick of the model: half the staleness window, so that an age of
\* exactly STALE_AGE_MS (two ticks) and an age beyond it (three) both occur
TickMs == STALE_AGE_MS \div 2

Calls == 1 .. NumCalls
Pids == 1 .. NumProcs

Sites == 1 .. NumSites
Bodies == 0 .. NumBodies

\* A URL as given by the caller: a site, with or without a "www." prefix.
RawUrls == [site : Sites, www : BOOLEAN]
NoUrl == [site |-> 0, www |-> FALSE]

\* Content as given by the caller or the extractor: a body, possibly with
\* surrounding whitespace (pad) and possibly with text beyond
\* MAX_CONTENT_LENGTH (over).
RawContents == [body : Bodies, pad : BOOLEAN, over : BOOLEAN]
NoContent == [body |-> 0 - 1, pad |-> FALSE, over |-> FALSE]

VARIABLES
  alive,         \* process table: alive[p] iff process p exists
  lockFile,      \* <KB_LOCK_DIR>/ingest.lock: NoLock, or its content (pid), its
                 \* age (Date.now() - mtime, in ticks of TickMs) and the call
                 \* whose write created the file
  sources,       \* rows of kb_sources
  chunks,        \* rows of kb_chunks
  nextSourceId,  \* ids handed out by createSource so far, plus one
  nextChunkId,   \* AUTOINCREMENT of kb_chunks
  pc,            \* pc[c]: where call c is
  local,         \* local[c]: the local variables of call c that live across an await
  dbInit,        \* dbInit[p]: the storage module of process p has its connection
                 \* (initKBTables has run in p)
  acqSaw,        \* acqSaw[c]: what the KBLock.acquire of call c, still running,
                 \* found at the lock path
  returned,      \* the last call that returned, and its IngestResult
  ollamaAvailable, \* embeddings.ts: the provider-availability flag
  cache,         \* embeddings.ts: the keys of the embedding cache, in the
                 \* order the LRUCache keeps them (least recently used first)
  used,          \* the cache keys generateEmbedding has hit or inserted, in
                 \* the order of their last hit or insertion
  cacheValue,    \* embeddings.ts: cacheValue[k], the provider input whose
                 \* embedding the cache holds under key k (NoText: no entry)
  vss,           \* the accelerated index kb_chunks_vss as the connection finds it
  srch,          \* the search call: its position, options and result
  emb,           \* the generateEmbedding call: its position, attempts and result
  batch,         \* the generateEmbeddingsBatch call: its inputs, the calls in
                 \* flight, the results so far and the delays slept
  fn,            \* a pure function applied to an argument: its name, the
                 \* argument and the value returned
  vssAvailable,  \* storage.ts: vssAvailable[p], the flag of process p
  vssTable,      \* kb_chunks_vss and its two triggers, as the database file
                 \* holds them
  lastOp,        \* the last call of a storage-layer operation and how it ended
  sweep,         \* the KBLock.cleanupStale call: its position, the files it has
                 \* yet to look at and the files it has deleted
  otherLock      \* a second file of KB_LOCK_DIR, beside ingest.lock

ingestVars == <<alive, lockFile, sources, chunks, nextSourceId, nextChunkId,
                pc, local, dbInit, acqSaw, returned>>
searchVars == <<vss, srch>>
embedVars == <<ollamaAvailable, cache, used, cacheValue, emb>>
batchVars == <<batch>>
fnVars == <<fn>>
storeVars == <<vssAvailable, vssTable, lastOp>>
sweepVars == <<sweep, otherLock>>
restVars == <<batchVars, fnVars, storeVars, sweepVars>>
vars == <<ingestVars, searchVars, embedVars, restVars>>

NoLock == [pid |-> 0, age |-> 0, creator |-> 0]
NoLocal == [pid |-> 0, url |-> NoUrl, existing |-> 0, sourceId |-> 0,
            text |-> NoContent]
NoResult == [success |-> FALSE, reason |-> "pending", error |-> "",
             source_id |-> 0, chunks_count |-> 0, existingSourceId |-> 0,
             updated |-> FALSE]

\* an embedding that is absent (null)
NoVec == <<>>

NoSearch == [pc |-> "idle", pid |-> 0, limit |-> 0, minSimilarity |-> 0,
             dedupeBySource |-> FALSE, queryEmbedding |-> NoVec,
             candidates |-> <<>>, result |-> <<>>, path |-> {}, error |-> ""]

NoText == [prefix |-> 0, long |-> FALSE, over |-> FALSE]

NoEmbed == [pc |-> "idle", key |-> 0, attempt |-> 0, calls |-> 0,
            slept |-> <<>>, result |-> "-", text |-> NoText,
            vectorOf |-> NoText]

NoBatch == [pc |-> "idle", texts |-> <<>>, i |-> 0, inFlight |-> {},
            batchResults |-> <<>>, results |-> <<>>, slept |-> 0]

NoFn == [name |-> "-", arg |-> <<>>, out |-> <<>>, pass |-> 0]

\* kb_chunks_vss does not exist
NoVssTable == [exists |-> FALSE, rows |-> {}]

NoOp == [op |-> "-", pid |-> 0, threw |-> "", out |-> <<>>]

NoSweep == [pc |-> "idle", pid |-> 0, files |-> <<>>, deleted |-> {},
            pass |-> 0, snap |-> <<>>]

\* no batch call, no function application and no storage-layer call has been
\* made; no process has loaded the vector extension and the database file has
\* no index
restIdle ==
  /\ batch = NoBatch
  /\ fn = NoFn
  /\ vssAvailable = [p \in Pids |-> FALSE]
  /\ vssTable = NoVssTable
  /\ lastOp = NoOp
  /\ sweep = NoSweep
  /\ otherLock = NoLock

\* ------------------------------------------------------------ dedupe.ts
\* normalizeUrl: the "www." prefix is removed (the other rewrites are not
\* distinguished by this model's URLs).
normalizeUrl(u) == [u EXCEPT !.www = FALSE]

\* cleanContent: excess whitespace is removed, the text itself is kept.
cleanContent(t) == [t EXCEPT !.pad = FALSE]

\* generateContentHash: SHA-256 of the trimmed content; distinct contents
\* have distinct digests.
generateContentHash(t) ==
  t.body + (IF t.over THEN NumBodies + 1 ELSE 0)
         + (IF t.pad THEN 2 * (NumBodies + 1) ELSE 0)

\* -------------------------------------------------------------- quality.ts
\* validateContent: body 0 stands for content below the minimum length of
\* its type; content longer than MAX_CONTENT_LENGTH is valid and truncated.
validateContent(t) == [valid |-> t.body # 0, truncated |-> t.over]

\* cleanedContent.slice(0, MAX_CONTENT_LENGTH)
truncate(t) == [t EXCEPT !.over = FALSE]

\* -------------------------------------------------------------- chunking.ts
\* chunkText: body b yields b - 1 chunks (body 1 passes the quality gate but
\* is shorter than KB_MIN_CHUNK and yields none).
chunkText(t) == [i \in 1 .. (t.body - 1) |-> <<t.body, i>>]

\* ---------------------------------------------------------------- locks.ts
\* Date.now() - stat.mtimeMs
age(lk) == lk.age * TickMs

\* line 73: age > STALE_AGE_MS
isStale(lk) == age(lk) > STALE_AGE_MS

\* line 79: process.kill(lockPid, 0) throws when no such process exists
killThrows(lk) == ~alive[lk.pid]

\* lines 77-80: what the try block throws.  When the probe returns, line 80
\* throws the "Lock file exists and process is still running" error, inside
\* the same try block.
tryThrows(lk) == IF killThrows(lk) THEN "ESRCH" ELSE "still running"

\* lines 81-84: the catch clause binds no error and rethrows nothing: whatever
\* the try block threw, it removes the lock file and acquire goes on.
catchRethrows(err) == FALSE

\* acquire raises to its caller
acquireThrows(lk) ==
  /\ lk # NoLock
  /\ ~isStale(lk)
  /\ catchRethrows(tryThrows(lk))

\* (mutant) the stale branch forgets to unlink
acquireUnlinks_keepsStale(lk) ==
  /\ lk # NoLock
  /\ ~isStale(lk)
  /\ ~catchRethrows(tryThrows(lk))

\* lines 68-86: acquire removes the file found at the lock path
acquireUnlinks(lk) ==
  /\ lk # NoLock
  /\ \/ isStale(lk)                              \* line 74
     \/ ~catchRethrows(tryThrows(lk))            \* line 83

\* line 89: writeFileSync(lockFile, pid): a new file when none is there, the
\* old file with new content and mtime otherwise
writeLock(c, p, lk) ==
  [pid |-> p, age |-> 0,
   creator |-> IF lk = NoLock THEN c ELSE lk.creator]

\* the lock file after a successful acquire by call c of process p
lockAfterAcquire(c, p, lk) ==
  writeLock(c, p, IF acquireUnlinks(lk) THEN NoLock ELSE lk)

\* (mutant) the release closure does nothing
release_keeps(lk) == lk

\* lines 92-96: the release closure removes whatever file is at the path
release(lk) == NoLock

\* what acquire finds at the lock path
lockSeen(lk) ==
  IF lk = NoLock THEN "none"
  ELSE IF isStale(lk) THEN "stale"
  ELSE IF killThrows(lk) THEN "dead"
  ELSE "live"

\* -------------------------------------------------------------- storage.ts
sourceIds(src) == {r.id : r \in src}

Min(S) == CHOOSE x \in S : \A y \in S : x <= y

\* (mutant) the lookup by URL never matches
getSourceByUrl_none(url) == 0

\* SELECT * FROM kb_sources WHERE url = ?  (.get: the first matching row, in
\* insertion order); 0 when there is none
getSourceByUrl(url) ==
  LET hit == {r.id : r \in {q \in sources : q.url = url}}
  IN IF hit = {} THEN 0 ELSE Min(hit)

\* (mutant) the lookup by hash never matches
getSourceByHash_none(h) == 0

\* SELECT * FROM kb_sources WHERE content_hash = ?
getSourceByHash(h) ==
  LET hit == {r.id : r \in {q \in sources : q.content_hash = h}}
  IN IF hit = {} THEN 0 ELSE Min(hit)

\* SELECT * FROM kb_sources WHERE id = ?
getSourceById(src, id) == {r \in src : r.id = id}

\* SELECT * FROM kb_chunks WHERE source_id = ?
getChunksBySourceId(ch, id) == {k \in ch : k.source_id = id}

\* (mutant) the column is not declared UNIQUE
uniqueViolation_none(src, id, h) == FALSE

\* content_hash TEXT UNIQUE: an INSERT or UPDATE that would give row `id` the
\* hash of another row fails with a constraint error
uniqueViolation(src, id, h) ==
  \E r \in src : r.id # id /\ r.content_hash = h

\* INSERT INTO kb_sources: the table with the new row
createSource(src, id, url, h) ==
  src \cup {[id |-> id, url |-> url, content_hash |-> h]}

\* UPDATE kb_sources SET url = ?, ..., content_hash = ? WHERE id = ?
\* (updates.url is defined whenever the orchestrator updates a Source)
updateSource(src, id, url, h) ==
  {IF r.id = id THEN [r EXCEPT !.url = url, !.content_hash = h] ELSE r : r \in src}

\* DELETE FROM kb_chunks WHERE source_id = ?
deleteChunksBySourceId(ch, id) == {k \in ch : k.source_id # id}

\* (mutant) the pragma is missing: SQLite does not enforce foreign keys
foreignKeys_off == FALSE

\* db.ts: db.pragma('foreign_keys = ON')
foreignKeys == TRUE

\* DELETE FROM kb_sources WHERE id = ?: the sources table afterwards
deleteSourceRows(src, id) == {r \in src : r.id # id}

\* ... and the chunks table afterwards: ON DELETE CASCADE, when foreign keys
\* are enforced
deleteSourceCascade(ch, id) ==
  IF foreignKeys THEN {k \in ch : k.source_id # id} ELSE ch

\* FOREIGN KEY (source_id) REFERENCES kb_sources(id): an INSERT into kb_chunks
\* naming no existing Source fails
fkViolation(src, id) == foreignKeys /\ id \notin sourceIds(src)

\* (mutant) the loop stores every chunk, embedded or not
newChunkRows_all(first, sid, cs, ok) ==
  {[id |-> first + i - 1, source_id |-> sid, chunk_index |-> i - 1,
    content |-> cs[i]] : i \in DOMAIN cs}

\* the rows createChunk inserts for the embedded chunks `ok` (positions in the
\* chunk sequence `cs`), in the order of the loop of finishIngestion
newChunkRows(first, sid, cs, ok) ==
  {[id |-> first + Cardinality({j \in ok : j < i}),
    source_id |-> sid,
    chunk_index |-> i - 1,
    content |-> cs[i]] : i \in ok}

\* --------------------------------------------------------------- ingest.ts
Failure(reason, error, existingId) ==
  [success |-> FALSE, reason |-> reason, error |-> error, source_id |-> 0,
   chunks_count |-> 0, existingSourceId |-> existingId, updated |-> FALSE]

Success(sid, n, upd) ==
  [success |-> TRUE, reason |-> "", error |-> "", source_id |-> sid,
   chunks_count |-> n, existingSourceId |-> 0, updated |-> upd]

\* String(err) of the errors the storage layer raises
NotInitialized == "Error: Database not initialized"
UniqueFailed == "SqliteError: UNIQUE constraint failed: kb_sources.content_hash"
ForeignKeyFailed == "SqliteError: FOREIGN KEY constraint failed"

\* (mutant) the catch clause reports the exception as a failed extraction
caught_asExtraction(err) ==
  Failure("extraction_failed", "Content extraction failed", 0)

\* the catch clause of ingestUrlInternal / ingestContentInternal: an exception
\* raised inside the try block becomes the outcome unknown with its message
caught(err) == Failure("unknown", err, 0)

\* if (!db) throw new Error('Database not initialized'), the first statement of
\* every storage operation
notInitialized(p) == ~dbInit[p]

\* The call returns `res`: the finally clause runs release() first.  `lk` is
\* the lock file at that moment; `src`, `ch`, `nsid`, `ncid` are the tables and
\* counters the call leaves behind.
Return(c, res, lk, src, ch, nsid, ncid) ==
  /\ pc' = [pc EXCEPT ![c] = "done"]
  /\ returned' = [call |-> c, result |-> res]
  /\ local' = [local EXCEPT ![c] = NoLocal]
  /\ acqSaw' = [acqSaw EXCEPT ![c] = "-"]
  /\ lockFile' = release(lk)
  /\ sources' = src
  /\ chunks' = ch
  /\ nextSourceId' = nsid
  /\ nextChunkId' = ncid

\* The call suspends at an await with locals `loc`, leaving lock file `lk`.
Suspend(c, at, loc, lk, src, ch, nsid) ==
  /\ pc' = [pc EXCEPT ![c] = at]
  /\ local' = [local EXCEPT ![c] = loc]
  /\ acqSaw' = [acqSaw EXCEPT ![c] = IF pc[c] = "idle" THEN lockSeen(lockFile)
                                     ELSE acqSaw[c]]
  /\ lockFile' = lk
  /\ sources' = src
  /\ chunks' = ch
  /\ nextSourceId' = nsid
  /\ UNCHANGED <<returned, nextChunkId>>

\* KBLock.acquire raised out of the call (it is outside the try block)
Raise(c) ==
  /\ pc' = [pc EXCEPT ![c] = "raised"]
  /\ acqSaw' = [acqSaw EXCEPT ![c] = lockSeen(lockFile)]
  /\ UNCHANGED <<lockFile, sources, chunks, nextSourceId, nextChunkId, local,
                 returned>>

\* a call may start: calls are numbered in the order they start, processes
\* in the order they make their first call
mayStart(c, p) ==
  /\ pc[c] = "idle"
  /\ \A d \in Calls : d < c => pc[d] # "idle"
  /\ p <= c
  /\ alive[p]

\* finishIngestion, lines 178-236: from cleaning the content to the await of
\* generateEmbeddingsBatch, in call c of process p.  `existing` is the id of
\* existingSource (0: none), `lk` the lock file and `ch` the chunks table when
\* it is entered.
finishIngestion(c, p, url, content, existing, lk, ch) ==
  LET cleanedContent == cleanContent(content)
      validation == validateContent(cleanedContent)
      finalContent == IF validation.truncated THEN truncate(cleanedContent)
                      ELSE cleanedContent
      contentHash == generateContentHash(finalContent)
      existingByHash == getSourceByHash(contentHash)
  IN
  IF ~validation.valid
  THEN Return(c, Failure("validation_failed", "Content too short", 0), lk, sources, ch,
              nextSourceId, nextChunkId)
  ELSE IF notInitialized(p)
  THEN \* getSourceByHash / updateSource throws
       Return(c, caught(NotInitialized), lk, sources, ch, nextSourceId,
              nextChunkId)
  ELSE IF existing = 0 /\ existingByHash # 0
  THEN Return(c, Failure("duplicate_hash", "Duplicate content (same hash)",
                      existingByHash), lk, sources, ch,
              nextSourceId, nextChunkId)
  ELSE IF existing # 0
  THEN \* updateSource(existingSource.id, ...): no row, no error
       IF existing \in sourceIds(sources)
          /\ uniqueViolation(sources, existing, contentHash)
       THEN Return(c, caught(UniqueFailed), lk, sources, ch,
                   nextSourceId, nextChunkId)
       ELSE Suspend(c, "embed",
                    [pid |-> p, url |-> url, existing |-> existing,
                     sourceId |-> existing, text |-> finalContent],
                    lk, updateSource(sources, existing, url, contentHash), ch,
                    nextSourceId)
  ELSE \* createSource(...)
       IF uniqueViolation(sources, nextSourceId, contentHash)
       THEN Return(c, caught(UniqueFailed), lk, sources, ch,
                   nextSourceId, nextChunkId)
       ELSE Suspend(c, "embed",
                    [pid |-> p, url |-> url, existing |-> 0,
                     sourceId |-> nextSourceId, text |-> finalContent],
                    lk, createSource(sources, nextSourceId, url, contentHash),
                    ch, nextSourceId + 1)

\* ingestUrlInternal, lines 58-82: acquire, the lookup by URL, and the await
\* of extractContent
ingestUrlInternal(c, p, url, forceUpdate) ==
  /\ mayStart(c, p)
  /\ UNCHANGED <<alive, dbInit, searchVars, embedVars, restVars>>
  /\ IF acquireThrows(lockFile)
     THEN Raise(c)
     ELSE LET lk == lockAfterAcquire(c, p, lockFile)
              normalizedUrl == normalizeUrl(url)
              existingByUrl == getSourceByUrl(normalizedUrl)
          IN IF notInitialized(p)
             THEN \* getSourceByUrl throws
                  Return(c, caught(NotInitialized), lk, sources, chunks,
                         nextSourceId, nextChunkId)
             ELSE
             IF existingByUrl # 0 /\ ~forceUpdate
             THEN Return(c, Failure("duplicate_url", "URL already ingested",
                                    existingByUrl), lk,
                         sources, chunks, nextSourceId, nextChunkId)
             ELSE Suspend(c, "extract",
                          [pid |-> p, url |-> normalizedUrl,
                           existing |-> existingByUrl, sourceId |-> 0,
                           text |-> NoContent],
                          lk, sources,
                          IF existingByUrl # 0
                          THEN deleteChunksBySourceId(chunks, existingByUrl)
                          ELSE chunks,
                          nextSourceId)

\* ingestUrlInternal, lines 82-100: extractContent has resolved with
\* `content` (NoContent: null)
extracted(c, content) ==
  /\ pc[c] = "extract"
  /\ alive[local[c].pid]
  /\ UNCHANGED <<alive, dbInit, searchVars, embedVars, restVars>>
  /\ IF content = NoContent
     THEN Return(c, Failure("extraction_failed", "Content extraction failed", 0), lockFile, sources, chunks,
                 nextSourceId, nextChunkId)
     ELSE finishIngestion(c, local[c].pid, local[c].url, content,
                          local[c].existing, lockFile, chunks)

\* ingestContentInternal, lines 131-158; `url` is options.url (NoUrl: absent)
ingestContentInternal(c, p, content, url, forceUpdate) ==
  /\ mayStart(c, p)
  /\ UNCHANGED <<alive, dbInit, searchVars, embedVars, restVars>>
  /\ IF acquireThrows(lockFile)
     THEN Raise(c)
     ELSE LET lk == lockAfterAcquire(c, p, lockFile)
              normalizedUrl == IF url = NoUrl THEN NoUrl ELSE normalizeUrl(url)
              existingSource == IF url = NoUrl THEN 0
                                ELSE getSourceByUrl(normalizedUrl)
          IN IF url # NoUrl /\ notInitialized(p)
             THEN \* getSourceByUrl throws
                  Return(c, caught(NotInitialized), lk, sources, chunks,
                         nextSourceId, nextChunkId)
             ELSE
             IF existingSource # 0 /\ ~forceUpdate
             THEN Return(c, Failure("duplicate_url", "URL already ingested",
                                    existingSource), lk,
                         sources, chunks, nextSourceId, nextChunkId)
             ELSE finishIngestion(c, p, normalizedUrl, content, existingSource,
                                  lk,
                                  IF existingSource # 0
                                  THEN deleteChunksBySourceId(chunks, existingSource)
                                  ELSE chunks)

\* finishIngestion, lines 236-270: generateEmbeddingsBatch has resolved; `ok`
\* are the positions of the chunk sequence whose embedding is not null
embedded(c, ok) ==
  LET cs == chunkText(local[c].text)
      sid == local[c].sourceId
  IN
  /\ pc[c] = "embed"
  /\ alive[local[c].pid]
  /\ ok \subseteq DOMAIN cs
  /\ UNCHANGED <<alive, dbInit, searchVars, embedVars, restVars>>
  /\ IF ok # {} /\ notInitialized(local[c].pid)
     THEN Return(c, caught(NotInitialized), lockFile, sources, chunks,
                 nextSourceId, nextChunkId)
     ELSE
     IF ok # {} /\ fkViolation(sources, sid)
     THEN Return(c, caught(ForeignKeyFailed), lockFile, sources,
                 chunks,
                 nextSourceId, nextChunkId)
     ELSE Return(c, Success(sid, Cardinality(ok), local[c].existing # 0),
                 lockFile, sources,
                 chunks \cup newChunkRows(nextChunkId, sid, cs, ok),
                 nextSourceId, nextChunkId + Cardinality(ok))

\* deleteKBSource(sourceId): no lock is taken
deleteKBSource(id) ==
  /\ id \in sourceIds(sources)
  /\ \E p \in Pids : alive[p] /\ ~notInitialized(p)
  /\ sources' = deleteSourceRows(sources, id)
  /\ chunks' = deleteSourceCascade(chunks, id)
  /\ UNCHANGED <<alive, lockFile, nextSourceId, nextChunkId, pc, local,
                 dbInit, acqSaw, returned, searchVars, embedVars, restVars>>

\* initKBTables(database) in process p: the storage module gets its
\* connection; the tables are created if they do not exist.  (Followed while a
\* call may still use the connection.)
initKBTables(p) ==
  /\ alive[p]
  /\ ~dbInit[p]
  /\ \E c \in Calls : pc[c] = "idle"
  /\ dbInit' = [dbInit EXCEPT ![p] = TRUE]
  /\ UNCHANGED <<alive, lockFile, sources, chunks, nextSourceId, nextChunkId,
                 pc, local, acqSaw, returned, searchVars, embedVars, restVars>>

\* a direct caller of KBLock.acquire('ingest') ...
acquire(c, p) ==
  /\ mayStart(c, p)
  /\ UNCHANGED <<alive, dbInit, searchVars, embedVars, restVars>>
  /\ IF acquireThrows(lockFile)
     THEN Raise(c)
     ELSE Suspend(c, "holding", [NoLocal EXCEPT !.pid = p],
                  lockAfterAcquire(c, p, lockFile), sources, chunks,
                  nextSourceId)

\* ... calls the release function it was given
releaseHandle(c) ==
  /\ pc[c] = "holding"
  /\ alive[local[c].pid]
  /\ pc' = [pc EXCEPT ![c] = "done"]
  /\ lockFile' = release(lockFile)
  /\ local' = [local EXCEPT ![c] = NoLocal]
  /\ acqSaw' = [acqSaw EXCEPT ![c] = "-"]
  /\ UNCHANGED <<alive, sources, chunks, nextSourceId, nextChunkId, dbInit,
                 returned, searchVars, embedVars, restVars>>

\* ------------------------------------------------------------- environment
\* some call has yet to start, and so to look at the lock file
observed == \E c \in Calls : pc[c] = "idle"

\* Time passes: the lock file grows older.  (Its age is followed while a call
\* may still read it.)
Tick ==
  /\ observed
  /\ lockFile # NoLock
  /\ lockFile.age < MaxAge
  /\ lockFile' = [lockFile EXCEPT !.age = @ + 1]
  /\ UNCHANGED <<alive, sources, chunks, nextSourceId, nextChunkId, pc, local,
                 dbInit, acqSaw, returned, searchVars, embedVars, restVars>>

\* Process p dies: its calls go no further, its lock file stays.  (Only the
\* death of the process the lock file names is followed, while a call may
\* still probe it: no other process is ever probed.)
Crash(p) ==
  /\ observed
  /\ alive[p]
  /\ lockFile.pid = p
  /\ alive' = [alive EXCEPT ![p] = FALSE]
  /\ UNCHANGED <<lockFile, sources, chunks, nextSourceId, nextChunkId, pc,
                 local, dbInit, acqSaw, returned, searchVars, embedVars, restVars>>

\* A Source an earlier run of the program has left in the database:
\* ingestUrl of site 1, whose content had one chunk, which was embedded.
priorText == [body |-> 2, pad |-> FALSE, over |-> FALSE]
priorSources ==
  createSource({}, 1, [site |-> 1, www |-> FALSE], generateContentHash(priorText))
priorChunks == newChunkRows(1, 1, chunkText(priorText), {1})

\* The database is empty, or holds what an earlier run has left; no lock file
\* exists, no call has started and no process has initialized its storage
\* module.
Init ==
  /\ alive = [p \in Pids |-> TRUE]
  /\ lockFile = NoLock
  /\ \E prior \in BOOLEAN :
        /\ sources = IF prior THEN priorSources ELSE {}
        /\ chunks = IF prior THEN priorChunks ELSE {}
        /\ nextSourceId = IF prior THEN 2 ELSE 1
        /\ nextChunkId = IF prior THEN 2 ELSE 1
  /\ pc = [c \in Calls |-> "idle"]
  /\ dbInit = [p \in Pids |-> FALSE]
  /\ local = [c \in Calls |-> NoLocal]
  /\ acqSaw = [c \in Calls |-> "-"]
  /\ returned = [call |-> 0, result |-> NoResult]
  /\ ollamaAvailable = TRUE
  /\ cache = <<>>
  /\ used = <<>>
  /\ cacheValue = [k \in 1 .. NumTexts |-> NoText]
  /\ vss = "ok"
  /\ srch = NoSearch
  /\ emb = NoEmbed
  /\ restIdle

Next ==
  \/ \E c \in Calls, p \in Pids, u \in RawUrls, f \in BOOLEAN :
        ingestUrlInternal(c, p, u, f)
  \/ \E c \in Calls, t \in RawContents \cup {NoContent} : extracted(c, t)
  \/ \E c \in Calls, p \in Pids, t \in RawContents, u \in RawUrls \cup {NoUrl},
        f \in BOOLEAN :
        ingestContentInternal(c, p, t, u, f)
  \/ \E c \in Calls : \E ok \in SUBSET (1 .. NumBodies) : embedded(c, ok)
  \/ \E id \in 1 .. nextSourceId : deleteKBSource(id)
  \/ \E p \in Pids : initKBTables(p)
  \/ \E c \in Calls, p \in Pids : acquire(c, p)
  \/ \E c \in Calls : releaseHandle(c)
  \/ Tick
  \/ \E p \in Pids : Crash(p)

Spec == Init /\ [][Next]_vars


\* ---------------------------------------------------------------- search.ts
\* Embeddings are two-dimensional integer vectors; a vector normalized by
\* generateEmbedding has squared length Unit.  Similarities and distances are
\* exact rationals: a similarity x is held as x * Scale, a squared distance
\* d2 as d2 * Unit.
Unit == 25
Scale == 2 * Unit * Unit

Vecs == {<<5, 0>>, <<4, 3>>, <<0, 5>>, <<0 - 3, 4>>}

dot(a, b) == a[1] * b[1] + a[2] * b[2]

sqrt(x) == CHOOSE n \in 0 .. x : n * n = x

Max2(x, y) == IF x >= y THEN x ELSE y
Min2(x, y) == IF x <= y THEN x ELSE y

\* cosineSimilarity(a, b): dotProduct / (sqrt(normA) * sqrt(normB)), 0 when
\* the lengths differ or the magnitude is 0
cosineSimilarity(a, b) ==
  IF Len(a) # Len(b) THEN 0
  ELSE LET magnitude == sqrt(dot(a, a) * dot(b, b))
       IN IF magnitude = 0 THEN 0 ELSE (dot(a, b) * Scale) \div magnitude

\* v.distance of kb_chunks_vss: the index reports the squared Euclidean
\* distance between the query and the stored vector
vssDistance(q, e) ==
  (q[1] - e[1]) * (q[1] - e[1]) + (q[2] - e[2]) * (q[2] - e[2])

\* line 120: Math.max(0, 1 - (row.distance * row.distance) / 2)
similarityOfDistance(distance) == Max2(0, Scale - distance * distance)

\* the options a search is called with: limit, minSimilarity (0, the default
\* 0.7, 1.1) and dedupeBySource
Limits == 1 .. MaxLimit
MinSimilarities == {0, (7 * Scale) \div 10, (11 * Scale) \div 10}

\* a SearchResult
hit(k, similarity) ==
  [chunk_id |-> k.id, source_id |-> k.source_id, similarity |-> similarity]

\* FROM kb_chunks c JOIN kb_sources s ON c.source_id = s.id
\* WHERE c.embedding IS NOT NULL
embeddedChunks(ch) == {k \in ch : k.embedding # NoVec}
joinedChunks(ch, src) ==
  {k \in embeddedChunks(ch) : k.source_id \in sourceIds(src)}

\* the rows of a SELECT without ORDER BY: in rowid order
RECURSIVE orderById(_)
orderById(S) ==
  IF S = {} THEN <<>>
  ELSE LET first == CHOOSE r \in S : \A x \in S : r.id <= x.id
       IN <<first>> \o orderById(S \ {first})

\* the rows vss_search yields: nearest first
RECURSIVE nearest(_, _)
nearest(S, q) ==
  IF S = {} THEN <<>>
  ELSE LET first == CHOOSE r \in S : \A x \in S :
                      \/ vssDistance(q, r.embedding) < vssDistance(q, x.embedding)
                      \/ /\ vssDistance(q, r.embedding) = vssDistance(q, x.embedding)
                         /\ r.id <= x.id
       IN <<first>> \o nearest(S \ {first}, q)

removeAt(s, i) == SubSeq(s, 1, i - 1) \o SubSeq(s, i + 1, Len(s))

\* results.sort((a, b) => b.similarity - a.similarity): descending, stable
RECURSIVE sortBySimilarity(_)
sortBySimilarity(s) ==
  IF s = <<>> THEN <<>>
  ELSE LET i == CHOOSE i \in 1 .. Len(s) : \A j \in 1 .. Len(s) :
                  \/ s[j].similarity < s[i].similarity
                  \/ s[j].similarity = s[i].similarity /\ i <= j
       IN <<s[i]>> \o sortBySimilarity(removeAt(s, i))

\* (mutant) the lower-similarity chunk of a source replaces the entry
replaces_lower(r, existing) == r.similarity < existing.similarity

\* line 42: r.similarity > existing.similarity
replaces(r, existing) == r.similarity > existing.similarity

\* lines 38-47: bestBySource, a Map from source_id to result filled in one
\* pass over `results`; `best` is Array.from(bestBySource.values()) so far
RECURSIVE bestBySource(_, _)
bestBySource(results, best) ==
  IF results = <<>> THEN best
  ELSE LET r == Head(results)
           at == {i \in 1 .. Len(best) : best[i].source_id = r.source_id}
       IN bestBySource(Tail(results),
            IF at = {} THEN Append(best, r)
            ELSE LET i == CHOOSE i \in at : TRUE
                 IN IF replaces(r, best[i]) THEN [best EXCEPT ![i] = r]
                    ELSE best)

\* processAndRankResults(results, limit, dedupeBySource)
processAndRankResults(results, limit, dedupeBySource) ==
  LET sorted == sortBySimilarity(results)
      finalResults == IF dedupeBySource
                      THEN sortBySimilarity(bestBySource(sorted, <<>>))
                      ELSE sorted
  IN SubSeq(finalResults, 1, Min2(limit, Len(finalResults)))

\* fallbackSearch, lines 159-183: the results that pass minSimilarity
fallbackResults(q, minSimilarity) ==
  LET rows == orderById(joinedChunks(chunks, sources))
  IN SelectSeq([i \in 1 .. Len(rows) |->
                  hit(rows[i], cosineSimilarity(q, rows[i].embedding))],
               LAMBDA r : r.similarity >= minSimilarity)

\* fallbackSearch(queryEmbedding, options)
fallbackSearch(q, limit, minSimilarity, dedupeBySource) ==
  processAndRankResults(fallbackResults(q, minSimilarity), limit, dedupeBySource)

\* search, lines 92-131: the results of the accelerated path that pass
\* minSimilarity; `count` is countResult.count
vssResults(q, limit, minSimilarity, count) ==
  LET fetchLimit == Min2(limit * 3, count)
      found == nearest(joinedChunks(chunks, sources), q)
      rows == SubSeq(found, 1, Min2(fetchLimit, Len(found)))
  IN SelectSeq([i \in 1 .. Len(rows) |->
                  hit(rows[i],
                      similarityOfDistance(vssDistance(q, rows[i].embedding)))],
               LAMBDA r : r.similarity >= minSimilarity)

\* the search call returns `result`
searchReturns(result, candidates, path, q) ==
  srch' = [srch EXCEPT !.pc = "returned", !.result = result,
                       !.candidates = candidates, !.path = path,
                       !.queryEmbedding = q]

\* the search call raises `error` to its caller
searchRaises(error, q) ==
  srch' = [srch EXCEPT !.pc = "raised", !.error = error, !.queryEmbedding = q]

\* (mutant) the catch clause calls fallbackSearch with the default options
searchCatch_defaults(q, limit, minSimilarity, dedupeBySource) ==
  fallbackSearch(q, MaxLimit, (7 * Scale) \div 10, TRUE)

\* lines 134-138: the catch clause of the accelerated path
searchCatch(q, limit, minSimilarity, dedupeBySource) ==
  fallbackSearch(q, limit, minSimilarity, dedupeBySource)

\* search(query, options) in process p, lines 61-74: up to the await of
\* generateEmbedding(query)
search(p, limit, minSimilarity, dedupeBySource) ==
  /\ srch.pc = "idle"
  /\ alive[p]
  /\ LET call == [srch EXCEPT !.pid = p, !.limit = limit,
                              !.minSimilarity = minSimilarity,
                              !.dedupeBySource = dedupeBySource]
     IN IF ~ollamaAvailable
        THEN srch' = [call EXCEPT !.pc = "returned"]
        ELSE srch' = [call EXCEPT !.pc = "embedding"]
  /\ UNCHANGED <<ingestVars, restVars, vss, embedVars>>

\* (mutant) search takes the ingest lock before it queries
searchEmbedded_locking(q) ==
  /\ srch.pc = "embedding"
  /\ searchReturns(<<>>, <<>>, {}, q)
  /\ lockFile' = [pid |-> srch.pid, age |-> 0, creator |-> 0]
  /\ UNCHANGED <<alive, sources, chunks, nextSourceId, nextChunkId, pc, local,
                 dbInit, acqSaw, returned, restVars, vss, embedVars>>

\* search, lines 74-139: generateEmbedding(query) has resolved with `q`
\* (NoVec: null)
searchEmbedded(q) ==
  /\ srch.pc = "embedding"
  /\ LET count == Cardinality(embeddedChunks(chunks))
     IN IF q = NoVec
        THEN searchReturns(<<>>, <<>>, {}, q)
        ELSE IF notInitialized(srch.pid)
        THEN \* line 80: getDatabase() throws, outside the try block
             searchRaises(NotInitialized, q)
        ELSE IF count = 0
        THEN searchReturns(<<>>, <<>>, {}, q)
        ELSE IF vss = "ok"
        THEN LET results == vssResults(q, srch.limit, srch.minSimilarity, count)
             IN searchReturns(
                  processAndRankResults(results, srch.limit, srch.dedupeBySource),
                  results, {"vss"}, q)
        ELSE \* db.prepare(sql) or .all() throws inside the try block
             searchReturns(
               searchCatch(q, srch.limit, srch.minSimilarity, srch.dedupeBySource),
               fallbackResults(q, srch.minSimilarity), {"vss", "fallback"}, q)
  /\ UNCHANGED <<ingestVars, restVars, vss, embedVars>>

\* checkOllamaHealth(): the availability flag is set to what the provider's
\* status endpoint answered
checkOllamaHealth(ok) ==
  /\ srch.pc = "idle"
  /\ emb.pc \in {"idle", "returned"}
  /\ ollamaAvailable # ok
  /\ ollamaAvailable' = ok
  /\ UNCHANGED <<ingestVars, restVars, searchVars, cache, used, cacheValue,
                 emb>>

\* The database a search is made on: Sources 1 and 2, and up to NumSlots
\* Chunks with their embeddings (chunk i belongs to Source slotSource(i)).
slotSource(i) == (i + 1) \div 2
searchSources ==
  {[id |-> i, url |-> [site |-> i, www |-> FALSE], content_hash |-> i]
     : i \in {slotSource(j) : j \in 1 .. NumSlots}}
searchChunks(e) ==
  {[id |-> i, source_id |-> slotSource(i), chunk_index |-> 0,
    content |-> <<i, 1>>, embedding |-> e[i]]
     : i \in {j \in 1 .. NumSlots : e[j] # NoVec}}

\* the accelerated index: working, not loaded, or raising on a query
VssStates == {"ok", "absent", "error"}

SearchInit ==
  /\ alive = [p \in Pids |-> TRUE]
  /\ lockFile = NoLock
  /\ sources = searchSources
  /\ \E e \in [1 .. NumSlots -> Vecs \cup {NoVec}] : chunks = searchChunks(e)
  /\ nextSourceId = Cardinality(searchSources) + 1
  /\ nextChunkId = NumSlots + 1
  /\ pc = [c \in Calls |-> "idle"]
  /\ dbInit = [p \in Pids |-> FALSE]
  /\ local = [c \in Calls |-> NoLocal]
  /\ acqSaw = [c \in Calls |-> "-"]
  /\ returned = [call |-> 0, result |-> NoResult]
  /\ ollamaAvailable = TRUE
  /\ cache = <<>>
  /\ used = <<>>
  /\ cacheValue = [k \in 1 .. NumTexts |-> NoText]
  /\ vss \in VssStates
  /\ srch = NoSearch
  /\ emb = NoEmbed
  /\ restIdle

SearchNext ==
  \/ \E p \in Pids : initKBTables(p)
  \/ \E ok \in BOOLEAN : checkOllamaHealth(ok)
  \/ \E p \in Pids, limit \in Limits, m \in MinSimilarities, d \in BOOLEAN :
        search(p, limit, m, d)
  \/ \E q \in Vecs \cup {NoVec} : searchEmbedded(q)

SearchSpec == SearchInit /\ [][SearchNext]_vars

\* Searches made while callers take and release the ingest lock, on databases
\* whose embedded chunks hold one vector.
LockedSearchInit == SearchInit /\ \A k \in chunks : k.embedding = <<5, 0>>

LockedSearchNext ==
  \/ SearchNext
  \/ \E c \in Calls, p \in Pids : acquire(c, p)
  \/ \E c \in Calls : releaseHandle(c)

LockedSearchSpec == LockedSearchInit /\ [][LockedSearchNext]_vars


\* ------------------------------------------------------------ embeddings.ts
\* A text: its first 500 characters (one of NumTexts prefixes), whether it
\* goes on beyond them, and whether it goes on beyond MAX_INPUT_LENGTH
\* characters.  (The texts of one prefix that go on share their first
\* MAX_INPUT_LENGTH characters.)
Texts ==
  {t \in [prefix : 1 .. NumTexts, long : BOOLEAN, over : BOOLEAN] :
     t.over => t.long}

\* line 180: text.slice(0, MAX_INPUT_LENGTH)
truncateInput(text) == [text EXCEPT !.over = FALSE]

\* line 170: text.slice(0, 500)
cacheKey(text) == text.prefix

\* the sequence `seq` without `k`
without(seq, k) == SelectSeq(seq, LAMBDA x : x # k)

\* `k` becomes the most recently used entry of `seq`
touched(seq, k) == Append(without(seq, k), k)

\* cache.has(key)
cacheHas(c, k) == \E i \in DOMAIN c : c[i] = k

\* (mutant) the lookup does not count as a use of the entry (cache.peek)
cacheGet_peek(c, k) == c

\* line 171: cache.get(key) makes the entry it finds the most recently used
cacheGet(c, k) == IF cacheHas(c, k) THEN touched(c, k) ELSE c

\* line 204: cache.set(key, value) makes the entry the most recently used;
\* a new entry put into a cache that holds `max` entries (line 143) takes
\* the place of the least recently used one
cacheSet(c, k) ==
  IF cacheHas(c, k) \/ Len(c) < CacheMax THEN touched(c, k)
  ELSE touched(Tail(c), k)

\* what the try block of generateEmbedding throws: fetch rejecting (network
\* failure, the 30 s AbortSignal.timeout), a response that is not ok, a
\* response without an embedding array
Errors ==
  {[name |-> "TypeError", message |-> "fetch failed"],
   [name |-> "TimeoutError",
    message |-> "The operation was aborted due to timeout"],
   [name |-> "Error", message |-> "Ollama error: 500 Internal Server Error"],
   [name |-> "Error", message |-> "Invalid embedding response from Ollama"]}

\* /ECONNRESET|ETIMEDOUT|ECONNREFUSED|fetch|network|timeout/i.test(message)
transientPattern(message) ==
  message \in {"fetch failed", "The operation was aborted due to timeout"}

\* isTransientError(err)
isTransientError(err) ==
  transientPattern(err.message) \/ err.name = "AbortError"

\* line 183: for (let attempt = 0; attempt < 3; attempt++)
MaxAttempts == 3

\* line 207: attempt === 2
isLastAttempt(attempt) == attempt = 2

\* line 211: [1000, 2000, 4000][attempt]
backoffDelay(attempt) == <<1000, 2000, 4000>>[attempt + 1]

\* (mutant) the loop does not count its iterations
nextAttempt_stuck(attempt) == attempt

\* line 183: attempt++
nextAttempt(attempt) == attempt + 1

\* the call returns `result` ("vector" or "absent")
embedReturns(e, result) == [e EXCEPT !.pc = "returned", !.result = result]

\* the loop goes to its next iteration: another call of the provider, or
\* line 224 when the loop is over
embedIterates(e) ==
  IF nextAttempt(e.attempt) < MaxAttempts
  THEN [e EXCEPT !.pc = "fetching", !.attempt = nextAttempt(e.attempt),
                 !.calls = e.calls + 1]
  ELSE embedReturns(e, "absent")

\* (mutant) the availability flag is tested before the cache is looked up
generateEmbedding_flagFirst(text) ==
  /\ emb.pc \in {"idle", "returned"}
  /\ LET call == [NoEmbed EXCEPT !.key = cacheKey(text), !.text = text]
     IN emb' = IF ~ollamaAvailable THEN embedReturns(call, "absent")
               ELSE IF cacheHas(cache, cacheKey(text))
               THEN [embedReturns(call, "vector")
                       EXCEPT !.vectorOf = cacheValue[cacheKey(text)]]
               ELSE [call EXCEPT !.pc = "fetching", !.calls = 1]
  /\ cache' = IF ollamaAvailable THEN cacheGet(cache, cacheKey(text)) ELSE cache
  /\ used' = IF ollamaAvailable /\ cacheHas(cache, cacheKey(text))
             THEN touched(used, cacheKey(text)) ELSE used
  /\ UNCHANGED <<ingestVars, restVars, searchVars, ollamaAvailable, cacheValue>>

\* generateEmbedding(text), lines 168-190: up to the first await of fetch
generateEmbedding(text) ==
  /\ emb.pc \in {"idle", "returned"}
  /\ LET call == [NoEmbed EXCEPT !.key = cacheKey(text), !.text = text]
     IN emb' = IF cacheHas(cache, cacheKey(text))
               THEN [embedReturns(call, "vector")
                       EXCEPT !.vectorOf = cacheValue[cacheKey(text)]]
               ELSE IF ~ollamaAvailable THEN embedReturns(call, "absent")
               ELSE [call EXCEPT !.pc = "fetching", !.calls = 1]
  /\ cache' = cacheGet(cache, cacheKey(text))
  /\ used' = IF cacheHas(cache, cacheKey(text))
             THEN touched(used, cacheKey(text)) ELSE used
  /\ UNCHANGED <<ingestVars, restVars, searchVars, ollamaAvailable, cacheValue>>

\* lines 192-205: the provider answered with an embedding
embeddingReceived ==
  /\ emb.pc = "fetching"
  /\ cache' = cacheSet(cache, emb.key)
  /\ used' = touched(used, emb.key)
  /\ cacheValue' = [k \in 1 .. NumTexts |->
                      IF k = emb.key THEN truncateInput(emb.text)
                      ELSE IF cacheHas(cache', k) THEN cacheValue[k]
                      ELSE NoText]
  /\ emb' = [embedReturns(emb, "vector")
              EXCEPT !.vectorOf = truncateInput(emb.text)]
  /\ UNCHANGED <<ingestVars, restVars, searchVars, ollamaAvailable>>

\* lines 206-221: the try block threw `err`
embeddingFailed(err) ==
  /\ emb.pc = "fetching"
  /\ emb' = IF ~isLastAttempt(emb.attempt) /\ isTransientError(err)
            THEN [emb EXCEPT !.pc = "sleeping",
                             !.slept = Append(@, backoffDelay(emb.attempt))]
            ELSE IF isLastAttempt(emb.attempt)
            THEN embedReturns(emb, "absent")
            ELSE \* neither branch of the catch clause is taken
                 embedIterates(emb)
  /\ UNCHANGED <<ingestVars, restVars, searchVars, ollamaAvailable, cache, used,
                 cacheValue>>

\* lines 213-214: sleep(delay) is over; continue
embedWoke ==
  /\ emb.pc = "sleeping"
  /\ emb' = embedIterates(emb)
  /\ UNCHANGED <<ingestVars, restVars, searchVars, ollamaAvailable, cache, used,
                 cacheValue>>

EmbedInit ==
  /\ alive = [p \in Pids |-> TRUE]
  /\ lockFile = NoLock
  /\ sources = {}
  /\ chunks = {}
  /\ nextSourceId = 1
  /\ nextChunkId = 1
  /\ pc = [c \in Calls |-> "idle"]
  /\ dbInit = [p \in Pids |-> FALSE]
  /\ local = [c \in Calls |-> NoLocal]
  /\ acqSaw = [c \in Calls |-> "-"]
  /\ returned = [call |-> 0, result |-> NoResult]
  /\ ollamaAvailable = TRUE
  /\ cache = <<>>
  /\ used = <<>>
  /\ cacheValue = [k \in 1 .. NumTexts |-> NoText]
  /\ vss = "ok"
  /\ srch = NoSearch
  /\ emb = NoEmbed
  /\ restIdle

EmbedNext ==
  \/ \E ok \in BOOLEAN : checkOllamaHealth(ok)
  \/ \E text \in Texts : generateEmbedding(text)
  \/ embeddingReceived
  \/ \E err \in Errors : embeddingFailed(err)
  \/ embedWoke

EmbedSpec == EmbedInit /\ [][EmbedNext]_vars

\* Every fetch is given AbortSignal.timeout(30000), so a provider call
\* resolves or rejects; a sleep ends when its timer fires.
EmbedFair ==
  /\ EmbedSpec
  /\ WF_vars(embeddingReceived \/ \E err \in Errors : embeddingFailed(err))
  /\ WF_vars(embedWoke)

\* ------------------------------------------- embeddings.ts: the batch call
\* line 236: const batchSize = 10
batchSize == 10

\* The texts of a batch call: text k of n, which the provider embeds unless
\* k is in `bad`.
BatchTexts(n, bad) == [k \in 1 .. n |-> [id |-> k, fails |-> k \in bad]]

\* the vector generateEmbedding(text) resolves with when it succeeds
embeddingOf(text) == <<"vector", text.id>>

\* what generateEmbedding(text) resolves with
embedOutcome(text) == IF text.fails THEN NoVec ELSE embeddingOf(text)

\* a promise of the group that has not settled
Pending == <<"pending">>

\* line 239: texts.slice(i, i + batchSize), as positions of `texts`
slice(texts, i) ==
  (i + 1) .. (IF i + batchSize < Len(texts) THEN i + batchSize ELSE Len(texts))

\* (mutant) the values are collected in the order the promises settle
promiseAll_arrival(batchResults, first, j, value) ==
  LET slot == CHOOSE k \in DOMAIN batchResults :
                /\ batchResults[k] = Pending
                /\ \A m \in DOMAIN batchResults :
                     batchResults[m] = Pending => k <= m
  IN [batchResults EXCEPT ![slot] = value]

\* line 242: Promise.all gives the value of the promise made for position j
\* of `texts` the place of that promise in the group (`first` is the position
\* of the group's first text)
promiseAll(batchResults, first, j, value) ==
  [batchResults EXCEPT ![j - first + 1] = value]

\* lines 239-244: the loop body up to the await of Promise.all: one
\* generateEmbedding call is started for each text of the group
startGroup(b, i) ==
  [b EXCEPT !.pc = "awaiting", !.i = i, !.inFlight = slice(b.texts, i),
            !.batchResults = [k \in 1 .. Cardinality(slice(b.texts, i))
                                |-> Pending]]

\* generateEmbeddingsBatch(texts), lines 235-244
generateEmbeddingsBatch(texts) ==
  /\ batch.pc = "idle"
  /\ batch' = IF Len(texts) = 0
              THEN [batch EXCEPT !.pc = "returned"]            \* line 254
              ELSE startGroup([batch EXCEPT !.texts = texts], 0)
  /\ UNCHANGED <<ingestVars, searchVars, embedVars, fnVars, storeVars, sweepVars>>

\* (mutant) the delay follows every group
textsRemain_always(b) == TRUE

\* line 249: i + batchSize < texts.length
textsRemain(b) == b.i + batchSize < Len(b.texts)

\* the generateEmbedding call for position j settles; when it is the last of
\* its group, lines 246-254 run: the group's values are appended to the
\* results and the call sleeps if texts remain, returns otherwise
embeddingSettled(j) ==
  /\ batch.pc = "awaiting"
  /\ j \in batch.inFlight
  /\ LET values == promiseAll(batch.batchResults, batch.i + 1, j,
                              embedOutcome(batch.texts[j]))
         left == batch.inFlight \ {j}
     IN batch' =
          IF left # {}
          THEN [batch EXCEPT !.inFlight = left, !.batchResults = values]
          ELSE IF textsRemain(batch)
          THEN [batch EXCEPT !.inFlight = left, !.batchResults = values,
                             !.results = @ \o values,
                             !.pc = "sleeping", !.slept = @ + 1]
          ELSE [batch EXCEPT !.inFlight = left, !.batchResults = values,
                             !.results = @ \o values, !.pc = "returned"]
  /\ UNCHANGED <<ingestVars, searchVars, embedVars, fnVars, storeVars, sweepVars>>

\* line 250: sleep(delay) is over; line 238: i += batchSize
batchWoke ==
  /\ batch.pc = "sleeping"
  /\ batch' = startGroup(batch, batch.i + batchSize)
  /\ UNCHANGED <<ingestVars, searchVars, embedVars, fnVars, storeVars, sweepVars>>

\* the texts a batch call is given: up to MaxInputs of them, at most one of
\* which the provider fails on
BatchInputs ==
  UNION {{BatchTexts(n, bad) : bad \in {{}} \cup {{k} : k \in 1 .. n}}
           : n \in 0 .. MaxInputs}

BatchInit ==
  /\ alive = [p \in Pids |-> TRUE]
  /\ lockFile = NoLock
  /\ sources = {}
  /\ chunks = {}
  /\ nextSourceId = 1
  /\ nextChunkId = 1
  /\ pc = [c \in Calls |-> "idle"]
  /\ dbInit = [p \in Pids |-> FALSE]
  /\ local = [c \in Calls |-> NoLocal]
  /\ acqSaw = [c \in Calls |-> "-"]
  /\ returned = [call |-> 0, result |-> NoResult]
  /\ ollamaAvailable = TRUE
  /\ cache = <<>>
  /\ used = <<>>
  /\ cacheValue = [k \in 1 .. NumTexts |-> NoText]
  /\ vss = "ok"
  /\ srch = NoSearch
  /\ emb = NoEmbed
  /\ restIdle

BatchNext ==
  \/ \E texts \in BatchInputs : generateEmbeddingsBatch(texts)
  \/ \E j \in 1 .. MaxInputs : embeddingSettled(j)
  \/ batchWoke

BatchSpec == BatchInit /\ [][BatchNext]_vars

\* ------------------------------------------- dedupe.ts: normalizeUrl on text
\* A URL text is a sequence of tokens: a scheme ("https://", "http://"),
\* "www." prefixes, a host, "/" and path segments, "?" and parameters joined
\* by "&", "#" and a fragment.  normalizeUrl above is normalizeUrlStr on the
\* URLs that differ in one "www." prefix only.
repeated(tok, n) == [i \in 1 .. n |-> tok]

UrlTexts ==
  {sch \o repeated("www.", w) \o <<h>> \o seg \o repeated("/", k) \o q \o f :
     sch \in {<<>>, <<"https://">>, <<"http://">>},
     w \in 0 .. MaxWww,
     h \in {"a.com", "x.com"},
     seg \in {<<>>, <<"/", "p">>},
     k \in 0 .. MaxSlashes,
     q \in {<<>>, <<"?", "utm_source=1">>, <<"?", "q=1">>,
            <<"?", "utm_source=1", "&", "q=1">>},
     f \in {<<>>, <<"#", "f">>}}
  \cup {<<>>, <<"https://">>}

\* lines 252-267: the parameters named in TRACKING_PARAMS
isTrackingParam(tok) == tok \in {"utm_source=1"}

\* the first place from `from` on where `str` has a token of `stops`; one past
\* the end when there is none
indexFrom(str, from, stops) ==
  LET at == {i \in from .. Len(str) : str[i] \in stops}
  IN IF at = {} THEN Len(str) + 1 ELSE Min(at)

\* line 277: /^https?:\/\//i.test(normalized)
hasProtocol(str) == Len(str) > 0 /\ str[1] \in {"https://", "http://"}

\* line 281: new URL(normalized): the parts of the URL, or a failure (ok
\* FALSE) when the text has no host
parseUrl(str) ==
  LET pathAt == indexFrom(str, 2, {"/", "?", "#"})
      queryAt == indexFrom(str, 2, {"?", "#"})
      hashAt == indexFrom(str, 2, {"#"})
  IN [ok |-> pathAt > 2,
      scheme |-> <<str[1]>>,
      host |-> SubSeq(str, 2, pathAt - 1),
      pathname |-> SubSeq(str, pathAt, queryAt - 1),
      searchParams |-> SelectSeq(SubSeq(str, queryAt + 1, hashAt - 1),
                                 LAMBDA tok : tok # "&"),
      hash |-> SubSeq(str, hashAt, Len(str))]

\* the parameters joined by "&"
RECURSIVE joined(_)
joined(params) ==
  IF Len(params) <= 1 THEN params
  ELSE <<params[1], "&">> \o joined(Tail(params))

\* line 288: u.href: the path is at least "/", a query without parameters
\* is left out
href(u) ==
  u.scheme \o u.host
  \o (IF u.pathname = <<>> THEN <<"/">> ELSE u.pathname)
  \o (IF u.searchParams = <<>> THEN <<>> ELSE <<"?">> \o joined(u.searchParams))
  \o u.hash

\* lines 284-286: u.searchParams.delete(param) for each tracking parameter
withoutTracking(u) ==
  [u EXCEPT !.searchParams = SelectSeq(@, LAMBDA tok : ~isTrackingParam(tok))]

\* line 291: replace(/^(https?:\/\/)www\./i, '$1'): one "www." after the scheme
withoutWww(str) ==
  IF Len(str) >= 2 /\ hasProtocol(str) /\ str[2] = "www."
  THEN <<str[1]>> \o SubSeq(str, 3, Len(str))
  ELSE str

\* line 294: replace(/:\/\/x\.com\//i, '://twitter.com/')
xToTwitter(str) ==
  IF Len(str) >= 3 /\ hasProtocol(str) /\ str[2] = "x.com" /\ str[3] = "/"
  THEN [str EXCEPT ![2] = "twitter.com"]
  ELSE str

\* line 297: replace(/\/$/, ''): one slash at the very end of the text
withoutTrailingSlash(str) ==
  IF Len(str) > 0 /\ str[Len(str)] = "/" THEN SubSeq(str, 1, Len(str) - 1)
  ELSE str

\* lines 300-303: the text before the first "#"
withoutFragment(str) == SubSeq(str, 1, indexFrom(str, 1, {"#"}) - 1)

\* normalizeUrl(url), lines 272-310, on a URL text
normalizeUrlStr(url) ==
  LET normalized == IF hasProtocol(url) THEN url ELSE <<"https://">> \o url
      u == parseUrl(normalized)
  IN IF ~u.ok THEN url                                         \* line 308
     ELSE withoutFragment(withoutTrailingSlash(xToTwitter(withoutWww(
            href(withoutTracking(u))))))

\* normalizeUrl is called with `url`
normalizeUrlCalled(url) ==
  /\ fn.name = "-"
  /\ fn' = [name |-> "normalizeUrl", arg |-> url, out |-> normalizeUrlStr(url),
            pass |-> 1]
  /\ UNCHANGED <<ingestVars, searchVars, embedVars, batchVars, storeVars, sweepVars>>

\* normalizeUrl is called with what it returned
normalizeUrlAgain ==
  /\ fn.name = "normalizeUrl"
  /\ fn.pass = 1
  /\ fn' = [fn EXCEPT !.arg = fn.out, !.out = normalizeUrlStr(fn.out),
                      !.pass = 2]
  /\ UNCHANGED <<ingestVars, searchVars, embedVars, batchVars, storeVars, sweepVars>>

UrlNext ==
  \/ \E url \in UrlTexts : normalizeUrlCalled(url)
  \/ normalizeUrlAgain

\* no call has been made (the state all of BatchInit's variables start in)
UrlSpec == BatchInit /\ [][UrlNext]_vars

\* ------------------------------------------- chunking.ts: chunkText on text
\* A text is a sequence of characters: a letter, a blank, a full stop.
\* chunkText above gives the number of chunks of a content; chunkTextStr is
\* the function on the characters.
Chars == {"a", " ", "."}

TextsUpTo(n) == UNION {[1 .. k -> Chars] : k \in 0 .. n}

\* the options chunkText is called with: small sizes, in place of the
\* defaults chunkSize 800, overlap 200, minChunk 100
ChunkOptions ==
  {[chunkSize |-> 4, overlap |-> 1, minChunk |-> 2],
   [chunkSize |-> 4, overlap |-> 2, minChunk |-> 2]}

\* \s
isSpace(ch) == ch = " "

\* str.slice(a, b), on 0-based positions
sliceStr(str, a, b) == SubSeq(str, a + 1, b)

\* str.trim()
trim(str) ==
  LET inside == {i \in DOMAIN str : ~isSpace(str[i])}
  IN IF inside = {} THEN <<>>
     ELSE SubSeq(str, Min(inside), CHOOSE i \in inside : \A j \in inside : j <= i)

\* line 39: SENTENCE_BOUNDARY.exec(window), /(?<=[.!?])\s+/: the first run of
\* blanks that follows a sentence end (0-based index, length)
sentenceBoundary(window) ==
  LET at == {i \in 1 .. Len(window) - 1 :
               window[i] \in {".", "!", "?"} /\ isSpace(window[i + 1])}
      index == Min(at)
      blanks == {n \in 1 .. Len(window) - index :
                   \A j \in 1 .. n : isSpace(window[index + j])}
  IN IF at = {} THEN [found |-> FALSE, index |-> 0, length |-> 0]
     ELSE [found |-> TRUE, index |-> index, length |-> Cardinality(blanks)]

\* line 46: /\s\S*$/.exec(window): the last blank of the window (0-based)
wordBoundary(window) ==
  LET at == {i \in DOMAIN window : isSpace(window[i])}
  IN IF at = {} THEN [found |-> FALSE, index |-> 0]
     ELSE [found |-> TRUE,
           index |-> (CHOOSE i \in at : \A j \in at : j <= i) - 1]

\* (mutant) the cut at a word boundary falls on the blank, not after it
chunkEnd_onBlank(text, o, position) ==
  LET end == Min2(position + o.chunkSize, Len(text))
      windowEnd == Min2(end + o.overlap, Len(text))
      windowStart == Max2(position, end - o.overlap)
      window == sliceStr(text, windowStart, windowEnd)
      match == sentenceBoundary(window)
      wordMatch == wordBoundary(window)
  IN IF ~(end < Len(text)) THEN end
     ELSE IF match.found THEN windowStart + match.index + match.length
     ELSE IF wordMatch.found THEN windowStart + wordMatch.index
     ELSE end

\* lines 31-51: where the chunk that starts at `position` ends
chunkEnd(text, o, position) ==
  LET end == Min2(position + o.chunkSize, Len(text))
      windowEnd == Min2(end + o.overlap, Len(text))
      windowStart == Max2(position, end - o.overlap)
      window == sliceStr(text, windowStart, windowEnd)
      match == sentenceBoundary(window)
      wordMatch == wordBoundary(window)
  IN IF ~(end < Len(text)) THEN end
     ELSE IF match.found THEN windowStart + match.index + match.length
     ELSE IF wordMatch.found THEN windowStart + wordMatch.index + 1
     ELSE end

\* lines 30-61: the while loop from `position` on; it returns the chunks
\* pushed, the position reached and every piece cut (pushed or not)
RECURSIVE chunkLoop(_, _, _, _, _)
chunkLoop(text, o, position, pushed, pieces) ==
  IF ~(position < Len(text))
  THEN [chunks |-> pushed, position |-> position, pieces |-> pieces]
  ELSE LET end == chunkEnd(text, o, position)
           chunk == trim(sliceStr(text, position, end))
       IN chunkLoop(text, o, end,
                    IF Len(chunk) >= o.minChunk THEN Append(pushed, chunk)
                    ELSE pushed,
                    Append(pieces, chunk))

\* chunkText(text, options), lines 24-73
chunkTextStr(text, o) ==
  LET loop == chunkLoop(text, o, 0, <<>>, <<>>)
      pushed == loop.chunks
      lastEnd == loop.position
      remainder == trim(sliceStr(text, lastEnd, Len(text)))
  IN IF /\ lastEnd < Len(text) /\ Len(text) - lastEnd < o.minChunk
        /\ Len(remainder) > 0 /\ Len(pushed) > 0
     THEN [pushed EXCEPT ![Len(pushed)] = @ \o <<" ">> \o remainder]
     ELSE pushed

\* chunkText is called with `text` and options `o`
chunkTextCalled(text, o) ==
  /\ fn.name = "-"
  /\ fn' = [name |-> "chunkText", arg |-> [text |-> text, options |-> o],
            out |-> chunkTextStr(text, o), pass |-> 1]
  /\ UNCHANGED <<ingestVars, searchVars, embedVars, batchVars, storeVars, sweepVars>>

ChunkNext ==
  \E text \in TextsUpTo(MaxTextLen), o \in ChunkOptions : chunkTextCalled(text, o)

ChunkSpec == BatchInit /\ [][ChunkNext]_vars

\* The same function followed one iteration of its loop at a time.
\* options with a one-character chunk and no window, and with a window wider
\* than the chunk, beside the ones above
LoopOptions ==
  ChunkOptions \cup {[chunkSize |-> 1, overlap |-> 0, minChunk |-> 1],
                     [chunkSize |-> 2, overlap |-> 3, minChunk |-> 1]}

\* lines 24-28: chunks = [], position = 0
chunkTextStarted(text, o) ==
  /\ fn.name = "-"
  /\ fn' = [name |-> "chunkText.while",
            arg |-> [text |-> text, options |-> o],
            out |-> [pc |-> "while", position |-> 0, chunks |-> <<>>,
                     cuts |-> <<>>],
            pass |-> 1]
  /\ UNCHANGED <<ingestVars, searchVars, embedVars, batchVars, storeVars, sweepVars>>

\* lines 30-61: one iteration; `cuts` keeps where each piece was cut and
\* whether it was pushed
chunkIterates ==
  /\ fn.name = "chunkText.while"
  /\ fn.out.pc = "while"
  /\ fn.out.position < Len(fn.arg.text)
  /\ LET text == fn.arg.text
         o == fn.arg.options
         position == fn.out.position
         end == chunkEnd(text, o, position)
         chunk == trim(sliceStr(text, position, end))
         push == Len(chunk) >= o.minChunk
     IN fn' = [fn EXCEPT
                 !.out.position = end,
                 !.out.chunks = IF push THEN Append(@, chunk) ELSE @,
                 !.out.cuts = Append(@, [start |-> position, end |-> end,
                                         pushed |-> push])]
  /\ UNCHANGED <<ingestVars, searchVars, embedVars, batchVars, storeVars, sweepVars>>

\* lines 63-72: the loop is left; the remainder, the return
chunkReturns ==
  /\ fn.name = "chunkText.while"
  /\ fn.out.pc = "while"
  /\ ~(fn.out.position < Len(fn.arg.text))
  /\ LET text == fn.arg.text
         o == fn.arg.options
         pushed == fn.out.chunks
         lastEnd == fn.out.position
         remainder == trim(sliceStr(text, lastEnd, Len(text)))
     IN fn' = [fn EXCEPT
                 !.out.pc = "returned",
                 !.out.chunks =
                    IF /\ lastEnd < Len(text)
                       /\ Len(text) - lastEnd < o.minChunk
                       /\ Len(remainder) > 0 /\ Len(pushed) > 0
                    THEN [pushed EXCEPT ![Len(pushed)] = @ \o <<" ">> \o remainder]
                    ELSE pushed]
  /\ UNCHANGED <<ingestVars, searchVars, embedVars, batchVars, storeVars, sweepVars>>

ChunkLoopNext ==
  \/ \E text \in TextsUpTo(MaxLoopLen), o \in LoopOptions :
        chunkTextStarted(text, o)
  \/ chunkIterates
  \/ chunkReturns

ChunkLoopSpec == BatchInit /\ [][ChunkLoopNext]_vars

\* chunkText is synchronous: once called it runs on
ChunkLoopFair == ChunkLoopSpec /\ WF_vars(chunkIterates) /\ WF_vars(chunkReturns)

\* -------------------------------------- quality.ts: validateContent on text
\* A content is a sequence of words on one line, separated by single blanks.
\* "prose" stands for a run of ordinary prose long enough for any source
\* type.  validateContent above is the gate on a content known by its body;
\* validateContentStr is the function on the words.
Words == {"prose", "page", "not", "found", "captcha", "CAPTCHA"}

Contents == UNION {[1 .. k -> Words] : k \in 0 .. MaxWords}

\* lines 10-24
ERROR_PATTERNS ==
  {<<"access", "denied">>, <<"captcha">>, <<"please", "enable", "javascript">>,
   <<"cloudflare">>, <<"404">>, <<"not", "found">>, <<"sign", "in">>,
   <<"blocked">>, <<"rate", "limit">>, <<"subscribe", "to", "continue">>,
   <<"login", "required">>, <<"authorization", "required">>,
   <<"page", "not", "found">>}

\* lines 29-36 (the types this model calls validateContent with)
MIN_LENGTHS == [article |-> 500, text |-> 20]

\* line 41
MAX_CONTENT_LENGTH == 200000

\* the number of characters of a word
wordLength(w) ==
  CASE w = "prose" -> 600
    [] w = "page" -> 4
    [] w = "not" -> 3
    [] w = "found" -> 5
    [] OTHER -> 7

\* content.length: the words and the blanks between them
RECURSIVE contentLength(_)
contentLength(content) ==
  IF content = <<>> THEN 0
  ELSE wordLength(content[1]) + (IF Len(content) > 1 THEN 1 ELSE 0)
       + contentLength(Tail(content))

\* line 60: content.toLowerCase()
toLowerCase(content) ==
  [i \in DOMAIN content |-> IF content[i] = "CAPTCHA" THEN "captcha"
                            ELSE content[i]]

\* pattern p is found in `lower` at place i
foundAt(lower, p, i) ==
  /\ i + Len(p) - 1 <= Len(lower)
  /\ \A j \in 1 .. Len(p) : lower[i + j - 1] = p[j]

\* line 61: lower.includes(p)
includes(lower, p) == \E i \in DOMAIN lower : foundAt(lower, p, i)

\* line 61: ERROR_PATTERNS.filter((p) => lower.includes(p))
errorSignals(content) ==
  {p \in ERROR_PATTERNS : includes(toLowerCase(content), p)}

\* line 62: errorSignals.length >= 2
detectErrorPage(content) == Cardinality(errorSignals(content)) >= 2

\* validateContent(content, type), lines 46-90 (a content of one line passes
\* the test of lines 70-84)
validateContentStr(content, type) ==
  IF contentLength(content) < MIN_LENGTHS[type]
  THEN [valid |-> FALSE, reason |-> "Content too short", truncated |-> FALSE]
  ELSE IF detectErrorPage(content)
  THEN [valid |-> FALSE, reason |-> "Detected error page", truncated |-> FALSE]
  ELSE [valid |-> TRUE, reason |-> "",
        truncated |-> contentLength(content) > MAX_CONTENT_LENGTH]

\* validateContent is called with `content` and `type`
validateContentCalled(content, type) ==
  /\ fn.name = "-"
  /\ fn' = [name |-> "validateContent",
            arg |-> [content |-> content, type |-> type],
            out |-> validateContentStr(content, type), pass |-> 1]
  /\ UNCHANGED <<ingestVars, searchVars, embedVars, batchVars, storeVars, sweepVars>>

QualityNext ==
  \E content \in Contents, type \in DOMAIN MIN_LENGTHS :
    validateContentCalled(content, type)

QualitySpec == BatchInit /\ [][QualityNext]_vars

\* ---------------------------------- storage.ts: the operations, one by one
\* The operations of the storage layer called directly, in a process p, on
\* the one database file the processes share.  initKBTables above follows the
\* connection alone; initKBTablesVss follows the vector extension as well.
NoSuchModule == "SqliteError: no such module: vss0"
NullVector == "SqliteError: kb_chunks_vss: no vector"

\* the arguments of createSource and updateSource
StorageUrls == {[site |-> 1, www |-> FALSE]}
StorageHashes == 1 .. 2

\* the arguments of createChunk
StorageChunks == [source_id : 1 .. NumSites, chunk_index : {0},
                  content : {<<>>}, embedding : {NoVec, <<5, 0>>}]

\* what a storage operation leaves alone
storageFrame ==
  UNCHANGED <<alive, lockFile, pc, local, dbInit, acqSaw, returned,
              searchVars, embedVars, batchVars, fnVars, sweepVars,
              vssAvailable>>

tablesUnchanged ==
  UNCHANGED <<sources, chunks, nextSourceId, nextChunkId, vssTable>>

\* the call throws: no statement has changed the database
thrown(p, op, err) ==
  /\ lastOp' = [op |-> op, pid |-> p, threw |-> err, out |-> <<>>]
  /\ tablesUnchanged

\* the call returns `out`
done(p, op, out) ==
  lastOp' = [op |-> op, pid |-> p, threw |-> "", out |-> out]

\* a function that reads: the guard, then a SELECT
readCalled(p, op, out) ==
  /\ alive[p]
  /\ IF notInitialized(p) THEN thrown(p, op, NotInitialized)
     ELSE done(p, op, out) /\ tablesUnchanged
  /\ storageFrame

\* initKBTables(database), lines 105-181, in process p: `loaded` says whether
\* loadSqliteVss succeeds.  CREATE ... IF NOT EXISTS leaves an index that is
\* there as it is; a new index is empty.
initKBTablesVss(p, loaded) ==
  /\ alive[p]
  /\ ~dbInit[p]
  /\ dbInit' = [dbInit EXCEPT ![p] = TRUE]
  /\ vssAvailable' = [vssAvailable EXCEPT ![p] = loaded]
  /\ vssTable' = IF loaded /\ ~vssTable.exists
                 THEN [exists |-> TRUE, rows |-> {}]
                 ELSE vssTable
  /\ UNCHANGED <<alive, lockFile, sources, chunks, nextSourceId, nextChunkId,
                 pc, local, acqSaw, returned, searchVars, embedVars,
                 batchVars, fnVars, sweepVars, lastOp>>

\* a statement on kb_chunks cannot be prepared by a connection that has not
\* loaded the extension once the triggers exist: they name kb_chunks_vss
triggersFail(p) == vssTable.exists /\ ~vssAvailable[p]

\* lines 163-167: AFTER INSERT ON kb_chunks
kb_chunks_sync(vt, row) ==
  IF vt.exists
  THEN [vt EXCEPT !.rows = @ \cup {[rowid |-> row.id,
                                    embedding |-> row.embedding]}]
  ELSE vt

\* lines 169-173: AFTER DELETE ON kb_chunks, for the rows `gone`
kb_chunks_delete(vt, gone) ==
  IF vt.exists
  THEN [vt EXCEPT !.rows = {r \in @ : r.rowid \notin {k.id : k \in gone}}]
  ELSE vt

\* createSource(source), lines 186-213
createSourceCalled(p, url, h) ==
  /\ alive[p]
  /\ nextSourceId <= NumSites
  /\ IF notInitialized(p) THEN thrown(p, "createSource", NotInitialized)
     ELSE IF uniqueViolation(sources, nextSourceId, h)
     THEN thrown(p, "createSource", UniqueFailed)
     ELSE /\ sources' = createSource(sources, nextSourceId, url, h)
          /\ nextSourceId' = nextSourceId + 1
          /\ done(p, "createSource", nextSourceId)
          /\ UNCHANGED <<chunks, nextChunkId, vssTable>>
  /\ storageFrame

\* getSourceById(id), lines 218-224
getSourceByIdCalled(p, id) ==
  readCalled(p, "getSourceById", getSourceById(sources, id))

\* getSourceByHash(contentHash), lines 229-237
getSourceByHashCalled(p, h) ==
  readCalled(p, "getSourceByHash", getSourceByHash(h))

\* getSourceByUrl(url), lines 242-250
getSourceByUrlCalled(p, url) ==
  readCalled(p, "getSourceByUrl", getSourceByUrl(url))

\* listSources(), lines 255-269
listSourcesCalled(p) == readCalled(p, "listSources", sources)

\* countSources(), lines 274-278
countSourcesCalled(p) == readCalled(p, "countSources", Cardinality(sources))

\* countChunks(), lines 283-287
countChunksCalled(p) == readCalled(p, "countChunks", Cardinality(chunks))

\* updateSource(id, updates), lines 292-335, with url and content_hash
updateSourceCalled(p, id, url, h) ==
  /\ alive[p]
  /\ IF notInitialized(p) THEN thrown(p, "updateSource", NotInitialized)
     ELSE IF id \in sourceIds(sources) /\ uniqueViolation(sources, id, h)
     THEN thrown(p, "updateSource", UniqueFailed)
     ELSE /\ sources' = updateSource(sources, id, url, h)
          /\ done(p, "updateSource", <<>>)
          /\ UNCHANGED <<chunks, nextSourceId, nextChunkId, vssTable>>
  /\ storageFrame

\* deleteSource(id), lines 340-343: the chunks go by the cascade, and the
\* trigger kb_chunks_delete runs for each of them.  `prepared` says whether a
\* connection without the extension gets as far as running the statement
\* when no chunk row is to be deleted.
deleteSourceCalled(p, id, prepared) ==
  /\ alive[p]
  /\ LET gone == getChunksBySourceId(chunks, id)
     IN IF notInitialized(p) THEN thrown(p, "deleteSource", NotInitialized)
        ELSE IF triggersFail(p) /\ (gone # {} \/ ~prepared)
        THEN thrown(p, "deleteSource", NoSuchModule)
        ELSE /\ sources' = deleteSourceRows(sources, id)
             /\ chunks' = deleteSourceCascade(chunks, id)
             /\ vssTable' = kb_chunks_delete(vssTable, chunks \ chunks')
             /\ done(p, "deleteSource", <<>>)
             /\ UNCHANGED <<nextSourceId, nextChunkId>>
  /\ storageFrame

\* createChunk(chunk), lines 348-376.  What the index does with a NULL
\* embedding handed to it by the trigger is the extension's business:
\* `nullTaken` says whether it passes it over or fails the statement.
createChunkCalled(p, chunk, nullTaken) ==
  /\ alive[p]
  /\ nextChunkId <= MaxChunkRows
  /\ LET row == [id |-> nextChunkId, source_id |-> chunk.source_id,
                 chunk_index |-> chunk.chunk_index, content |-> chunk.content,
                 embedding |-> chunk.embedding]
     IN IF notInitialized(p) THEN thrown(p, "createChunk", NotInitialized)
        ELSE IF triggersFail(p) THEN thrown(p, "createChunk", NoSuchModule)
        ELSE IF fkViolation(sources, chunk.source_id)
        THEN thrown(p, "createChunk", ForeignKeyFailed)
        ELSE IF vssTable.exists /\ chunk.embedding = NoVec /\ ~nullTaken
        THEN thrown(p, "createChunk", NullVector)
        ELSE /\ chunks' = chunks \cup {row}
             /\ nextChunkId' = nextChunkId + 1
             /\ vssTable' = IF chunk.embedding = NoVec THEN vssTable
                            ELSE kb_chunks_sync(vssTable, row)
             /\ done(p, "createChunk", row.id)
             /\ UNCHANGED <<sources, nextSourceId>>
  /\ storageFrame

\* getChunksBySourceId(sourceId), lines 381-391
getChunksBySourceIdCalled(p, id) ==
  readCalled(p, "getChunksBySourceId", getChunksBySourceId(chunks, id))

\* deleteChunksBySourceId(sourceId), lines 396-400
deleteChunksBySourceIdCalled(p, id) ==
  /\ alive[p]
  /\ IF notInitialized(p)
     THEN thrown(p, "deleteChunksBySourceId", NotInitialized)
     ELSE IF triggersFail(p)
     THEN thrown(p, "deleteChunksBySourceId", NoSuchModule)
     ELSE /\ chunks' = deleteChunksBySourceId(chunks, id)
          /\ vssTable' = kb_chunks_delete(vssTable, chunks \ chunks')
          /\ done(p, "deleteChunksBySourceId", <<>>)
          /\ UNCHANGED <<sources, nextSourceId, nextChunkId>>
  /\ storageFrame

\* getAllChunks(), lines 405-413
getAllChunksCalled(p) ==
  readCalled(p, "getAllChunks", {k \in chunks : k.embedding # NoVec})

\* getChunkById(id), lines 418-426
getChunkByIdCalled(p, id) ==
  readCalled(p, "getChunkById", {k \in chunks : k.id = id})

\* (mutant) getDatabase hands out `db` unchecked
getDatabaseCalled_unchecked(p) ==
  /\ alive[p]
  /\ done(p, "getDatabase", <<"db">>)
  /\ tablesUnchanged
  /\ storageFrame

\* getDatabase(), lines 431-434
getDatabaseCalled(p) == readCalled(p, "getDatabase", <<"db">>)

StorageNext ==
  \/ \E p \in Pids, loaded \in BOOLEAN : initKBTablesVss(p, loaded)
  \/ \E p \in Pids, url \in StorageUrls, h \in StorageHashes :
        createSourceCalled(p, url, h)
  \/ \E p \in Pids, id \in 1 .. NumSites : getSourceByIdCalled(p, id)
  \/ \E p \in Pids, h \in StorageHashes : getSourceByHashCalled(p, h)
  \/ \E p \in Pids, url \in StorageUrls : getSourceByUrlCalled(p, url)
  \/ \E p \in Pids : listSourcesCalled(p)
  \/ \E p \in Pids : countSourcesCalled(p)
  \/ \E p \in Pids : countChunksCalled(p)
  \/ \E p \in Pids, id \in 1 .. NumSites, url \in StorageUrls,
        h \in StorageHashes : updateSourceCalled(p, id, url, h)
  \/ \E p \in Pids, id \in 1 .. NumSites, prepared \in BOOLEAN :
        deleteSourceCalled(p, id, prepared)
  \/ \E p \in Pids, chunk \in StorageChunks, nullTaken \in BOOLEAN :
        createChunkCalled(p, chunk, nullTaken)
  \/ \E p \in Pids, id \in 1 .. NumSites : getChunksBySourceIdCalled(p, id)
  \/ \E p \in Pids, id \in 1 .. NumSites :
        deleteChunksBySourceIdCalled(p, id)
  \/ \E p \in Pids : getAllChunksCalled(p)
  \/ \E p \in Pids, id \in 1 .. MaxChunkRows : getChunkByIdCalled(p, id)
  \/ \E p \in Pids : getDatabaseCalled(p)

StorageSpec == BatchInit /\ [][StorageNext]_vars

\* ------------------------------------------------ lock.ts: cleanupStale
\* KB_LOCK_DIR holds ingest.lock (lockFile) and a second file (otherLock).
\* Every fs call of the sweep is a step of its own: other processes acquire
\* and release the lock, and remove files, between two of them.
LockFiles == <<"ingest.lock", "other.lock">>

\* the file of that name, NoLock when there is none
dirFile(name) == IF name = "ingest.lock" THEN lockFile ELSE otherLock

\* line 106: fs.readdirSync(lockDir)
readdir == SelectSeq(LockFiles, LAMBDA name : dirFile(name) # NoLock)

\* line 111: Date.now() - stat.mtimeMs > STALE_AGE_MS
olderThanWindow(lk) == age(lk) > STALE_AGE_MS

\* lines 102-107: cleanupStale() is called in process p, a first or a second
\* time; `snap` keeps the directory as the first call found it
cleanupStale(p) ==
  /\ alive[p]
  /\ sweep.pc \in {"idle", "returned"}
  /\ sweep.pass < 2
  /\ sweep' = [pc |-> "stat", pid |-> p, files |-> readdir,
               deleted |-> sweep.deleted, pass |-> sweep.pass + 1,
               snap |-> IF sweep.pass = 0
                        THEN [n \in {"ingest.lock", "other.lock"} |-> dirFile(n)]
                        ELSE sweep.snap]
  /\ UNCHANGED <<ingestVars, searchVars, embedVars, batchVars, fnVars,
                 storeVars, otherLock>>

\* lines 110-111: statSync of the next file; ENOENT is caught (lines 114-116)
sweepStat ==
  /\ sweep.pc = "stat"
  /\ sweep.files # <<>>
  /\ alive[sweep.pid]
  /\ LET file == dirFile(Head(sweep.files))
     IN sweep' = IF file # NoLock /\ olderThanWindow(file)
                 THEN [sweep EXCEPT !.pc = "unlink"]
                 ELSE [sweep EXCEPT !.files = Tail(@)]
  /\ UNCHANGED <<ingestVars, searchVars, embedVars, batchVars, fnVars,
                 storeVars, otherLock>>

\* line 112: unlinkSync of the file found stale; ENOENT is caught
sweepUnlink ==
  /\ sweep.pc = "unlink"
  /\ alive[sweep.pid]
  /\ LET name == Head(sweep.files)
         file == dirFile(name)
     IN /\ sweep' = [sweep EXCEPT
                       !.pc = "stat",
                       !.files = Tail(@),
                       !.deleted = IF file = NoLock THEN @
                                   ELSE @ \cup {[name |-> name, file |-> file,
                                                 pass |-> sweep.pass]}]
        /\ lockFile' = IF name = "ingest.lock" THEN NoLock ELSE lockFile
        /\ otherLock' = IF name = "other.lock" THEN NoLock ELSE otherLock
  /\ UNCHANGED <<alive, sources, chunks, nextSourceId, nextChunkId, pc, local,
                 dbInit, acqSaw, returned, searchVars, embedVars, batchVars,
                 fnVars, storeVars>>

\* line 117: the loop is over
sweepReturns ==
  /\ sweep.pc = "stat"
  /\ sweep.files = <<>>
  /\ sweep' = [sweep EXCEPT !.pc = "returned"]
  /\ UNCHANGED <<ingestVars, searchVars, embedVars, batchVars, fnVars,
                 storeVars, otherLock>>

\* another process removes the second file
otherVanishes ==
  /\ otherLock # NoLock
  /\ otherLock' = NoLock
  /\ UNCHANGED <<ingestVars, searchVars, embedVars, batchVars, fnVars,
                 storeVars, sweep>>

\* cleanupStale is synchronous: while it runs in a process, that process
\* runs nothing else
sweeping(p) == sweep.pc \in {"stat", "unlink"} /\ sweep.pid = p

\* The directory holds no ingest.lock; the second file is absent, fresh, as
\* old as the window to the tick, or older.
SweepInit ==
  /\ alive = [p \in Pids |-> TRUE]
  /\ lockFile = NoLock
  /\ sources = {}
  /\ chunks = {}
  /\ nextSourceId = 1
  /\ nextChunkId = 1
  /\ pc = [c \in Calls |-> "idle"]
  /\ dbInit = [p \in Pids |-> FALSE]
  /\ local = [c \in Calls |-> NoLocal]
  /\ acqSaw = [c \in Calls |-> "-"]
  /\ returned = [call |-> 0, result |-> NoResult]
  /\ ollamaAvailable = TRUE
  /\ cache = <<>>
  /\ used = <<>>
  /\ cacheValue = [k \in 1 .. NumTexts |-> NoText]
  /\ vss = "ok"
  /\ srch = NoSearch
  /\ emb = NoEmbed
  /\ batch = NoBatch
  /\ fn = NoFn
  /\ vssAvailable = [p \in Pids |-> FALSE]
  /\ vssTable = NoVssTable
  /\ lastOp = NoOp
  /\ sweep = NoSweep
  /\ otherLock \in {NoLock} \cup
        {[pid |-> 1, age |-> a, creator |-> 0] : a \in {0, 2, MaxAge}}

SweepNext ==
  \/ \E p \in Pids : cleanupStale(p)
  \/ sweepStat
  \/ sweepUnlink
  \/ sweepReturns
  \/ otherVanishes
  \/ \E c \in Calls, p \in Pids : ~sweeping(p) /\ acquire(c, p)
  \/ \E c \in Calls : ~sweeping(local[c].pid) /\ releaseHandle(c)
  \/ Tick
  \/ \E p \in Pids : Crash(p)

SweepSpec == SweepInit /\ [][SweepNext]_vars

\* ===================================================================== claims
\* call c is between its successful acquire('ingest') and its release
inIngestion(c) == pc[c] \in {"extract", "embed"}
holdsLock(c) == pc[c] \in {"extract", "embed", "holding"}

\* the step in which call c runs KBLock.acquire
acquireStep(c) == pc[c] = "idle" /\ pc'[c] # "idle"

\* C1: an acquire that found a lock file younger than the staleness window,
\* naming a live process, has failed with the already-locked error: the call
\* went no further.
C1_LiveLockRefuses ==
  \A c \in Calls : acqSaw[c] = "live" => pc[c] = "raised"

\* C2: while every holder is alive and no stale lock file was reclaimed, at
\* most one ingestion call is between its acquire and its release.
C2_IngestionsSerialize ==
  \A c, d \in Calls :
    (/\ c # d
     /\ inIngestion(c) /\ inIngestion(d)
     /\ alive[local[c].pid] /\ alive[local[d].pid]
     /\ acqSaw[c] # "stale" /\ acqSaw[d] # "stale") => FALSE

\* C3: an acquire that finds a reclaimable lock file (older than the
\* staleness window, or younger and naming a dead process) succeeds: the file
\* found is removed, and the lock file the call then holds is a new one with
\* the acquiring process's pid.
C3_ReclaimSucceeds ==
  [][\A c \in Calls :
       (acquireStep(c) /\ lockSeen(lockFile) \in {"stale", "dead"})
       => /\ pc'[c] # "raised"
          /\ lockFile' = IF pc'[c] = "done" THEN NoLock
                         ELSE [pid |-> local'[c].pid, age |-> 0, creator |-> c]]_vars

\* C3 witness: a call holds the lock it took over from a stale lock file
C3_Witness ==
  \E c \in Calls :
    /\ pc[c] = "holding"
    /\ acqSaw[c] = "stale"
    /\ lockFile = [pid |-> local[c].pid, age |-> 0, creator |-> c]

duplicateUrlOutcome(c, nu) ==
  /\ returned'.call = c
  /\ pc'[c] = "done"
  /\ ~returned'.result.success
  /\ returned'.result.reason = "duplicate_url"
  /\ \E r \in sources : r.id = returned'.result.existingSourceId /\ r.url = nu
  /\ sources' = sources
  /\ chunks' = chunks
  /\ nextSourceId' = nextSourceId

storedUnder(nu) == \E r \in sources : r.url = nu

\* C5: ingesting (by URL or by content with a URL) a URL whose normalized form
\* is stored on a Source, without forceUpdate, in a process whose storage has
\* been initialized, fails with duplicate_url, reports that Source's id and
\* leaves Sources and Chunks unchanged.
C5_DuplicateUrlRefused ==
  [][\A c \in Calls : acquireStep(c) =>
       \A u \in RawUrls : storedUnder(normalizeUrl(u)) =>
         \A p \in Pids : ~notInitialized(p) =>
           /\ ingestUrlInternal(c, p, u, FALSE)
              => duplicateUrlOutcome(c, normalizeUrl(u))
           /\ \A t \in RawContents :
                ingestContentInternal(c, p, t, u, FALSE)
                => duplicateUrlOutcome(c, normalizeUrl(u))]_vars

\* C5 witness: a call on a stored URL returned
\* duplicate_url while the database holds that one Source
C5_Witness ==
  /\ returned.result.reason = "duplicate_url"
  /\ returned.result.existingSourceId \in sourceIds(sources)
  /\ Cardinality(sources) = 1

\* the content finishIngestion hashes and stores for content `t`
finalContentOf(t) ==
  IF validateContent(cleanContent(t)).truncated
  THEN truncate(cleanContent(t)) ELSE cleanContent(t)

storedWithHash(h) == \E r \in sources : r.content_hash = h

\* the outcome duplicate_hash of call c for hash h
duplicateHashOutcome(c, h) ==
  /\ returned'.call = c
  /\ pc'[c] = "done"
  /\ ~returned'.result.success
  /\ returned'.result.reason = "duplicate_hash"
  /\ \E r \in sources : r.id = returned'.result.existingSourceId
                        /\ r.content_hash = h
  /\ sources' = sources
  /\ chunks' = chunks
  /\ nextSourceId' = nextSourceId
  /\ nextChunkId' = nextChunkId

\* C6: an ingestion, in a process whose storage has been initialized, that is
\* not updating an existing Source and whose final (cleaned, truncated if
\* flagged) content has the hash of a stored Source fails with duplicate_hash, reports that Source's id and creates no Source
\* and no Chunk.
C6_DuplicateHashRefused ==
  [][\A c \in Calls, t \in RawContents :
       (/\ pc[c] \in {"idle", "extract"}
        /\ pc'[c] # pc[c]
        /\ validateContent(cleanContent(t)).valid
        /\ storedWithHash(generateContentHash(finalContentOf(t))))
       => /\ (local[c].existing = 0 /\ extracted(c, t))
             => duplicateHashOutcome(c, generateContentHash(finalContentOf(t)))
          /\ \A p \in Pids, u \in RawUrls \cup {NoUrl}, f \in BOOLEAN :
               (/\ ~notInitialized(p)
                /\ (u = NoUrl \/ ~storedUnder(normalizeUrl(u)))
                /\ ingestContentInternal(c, p, t, u, f))
               => duplicateHashOutcome(c,
                                       generateContentHash(finalContentOf(t)))]_vars

\* C6 witness: a call returned duplicate_hash naming a stored Source
C6_Witness ==
  /\ returned.result.reason = "duplicate_hash"
  /\ returned.result.existingSourceId \in sourceIds(sources)

\* C7: no two Sources have the same content_hash.
C7_HashUnique ==
  \A r1, r2 \in sources : r1.content_hash = r2.content_hash => r1 = r2

\* C7 witness: an update whose new content is that of another stored Source
\* was refused by the storage layer, both Sources being stored
C7_Witness ==
  /\ returned.result.error = UniqueFailed
  /\ Cardinality(sources) >= 2

\* no ingestion call is between two of its steps
quiescent == \A c \in Calls : ~inIngestion(c)

\* C8: once the ingestion calls have completed, the chunk_index values of every
\* Source's Chunks are pairwise distinct and are exactly 0 .. n-1.
C8_ChunkIndexContiguous ==
  quiescent =>
    \A r \in sources :
      LET ks == getChunksBySourceId(chunks, r.id)
      IN /\ \A k1, k2 \in ks : k1.chunk_index = k2.chunk_index => k1 = k2
         /\ {k.chunk_index : k \in ks} = 0 .. (Cardinality(ks) - 1)

noOrphans == \A k \in chunks : k.source_id \in sourceIds(sources)

\* C9: deleting a Source removes it and every Chunk it owns, and every stored
\* Chunk names an existing Source.
C9_DeleteCascades ==
  /\ []noOrphans
  /\ [][\A id \in 1 .. nextSourceId :
          deleteKBSource(id)
          => /\ getSourceById(sources', id) = {}
             /\ getChunksBySourceId(chunks', id) = {}]_vars

\* C9 witness: the Source the database held, and its Chunk, are gone
C9_Witness ==
  /\ nextSourceId = 2
  /\ nextChunkId = 2
  /\ sources = {}
  /\ chunks = {}

\* C10: a successful update keeps the Source's id and the set of Sources, and
\* leaves the Source owning exactly the Chunks created from the new content.
C10_UpdateReplacesChunks ==
  [][\A c \in Calls, ok \in SUBSET (1 .. NumBodies) :
       (local[c].existing # 0 /\ embedded(c, ok) /\ returned'.result.success)
       => /\ returned'.result.source_id = local[c].existing
          /\ sourceIds(sources') = sourceIds(sources)
          /\ getChunksBySourceId(chunks', local[c].existing)
               = newChunkRows(nextChunkId, local[c].existing,
                              chunkText(local[c].text), ok)]_vars

\* C11: a successful ingestion persists exactly the chunks whose embedding
\* succeeded; its chunks_count is the number of Chunks the call persisted for
\* the returned source_id, at most the number of chunks chunking produced.
C11_StoresEmbeddedChunks ==
  [][\A c \in Calls : pc[c] = "embed" =>
       \A ok \in SUBSET (1 .. NumBodies) :
         (embedded(c, ok) /\ returned'.result.success)
         => LET cs == chunkText(local[c].text)
                persisted == chunks' \ chunks
            IN /\ chunks \subseteq chunks'
               /\ {k.content : k \in persisted} = {cs[i] : i \in ok}
               /\ Cardinality(persisted) = Cardinality(ok)
               /\ returned'.result.chunks_count =
                    Cardinality({k \in persisted :
                                   k.source_id = returned'.result.source_id})
               /\ returned'.result.chunks_count = Cardinality(persisted)
               /\ returned'.result.chunks_count <= Len(cs)]_vars

\* C11 witness: an ingestion of content with two chunks succeeded with one
\* chunk stored, the other's embedding having failed
C11_Witness ==
  /\ returned.result.success
  /\ returned.result.chunks_count = 1
  /\ \E k \in chunks : /\ k.source_id = returned.result.source_id
                        /\ Len(chunkText([body |-> k.content[1], pad |-> FALSE,
                                          over |-> FALSE])) = 2
                        /\ k.id = nextChunkId - 1

\* an IngestResult as the contract describes it: a success flag and, on
\* failure, one of the five reasons with a detail
isOutcome(res) ==
  /\ res.success \in BOOLEAN
  /\ ~res.success =>
       /\ res.reason \in {"duplicate_url", "duplicate_hash", "extraction_failed",
                          "validation_failed", "unknown"}
       /\ res.error # ""

\* call c returned the internal failure `err` as reason unknown with its message
internalFailureOutcome(c, err) ==
  /\ pc'[c] = "done"
  /\ returned'.call = c
  /\ ~returned'.result.success
  /\ returned'.result.reason = "unknown"
  /\ returned'.result.error = err

searchEnded == srch.pc \in {"returned", "raised"}

\* the entries of a result list are in non-increasing order of similarity
nonIncreasing(res) ==
  \A i, j \in 1 .. Len(res) : i < j => res[i].similarity >= res[j].similarity

\* C13: a search call never raises to its caller.
C13_SearchNeverRaises == srch.pc # "raised"

\* C14: a search call made while the provider is marked unavailable, or whose
\* query embedding is absent, or made when no chunk has an embedding, ends by
\* returning the empty list, having neither queried the accelerated index nor
\* scanned the chunks.
C14_ShortCircuit ==
  (/\ searchEnded
   /\ \/ ~ollamaAvailable
      \/ srch.queryEmbedding = NoVec
      \/ embeddedChunks(chunks) = {})
  => /\ srch.pc = "returned"
     /\ srch.result = <<>>
     /\ srch.path = {}

\* C15: a search whose accelerated path failed (index not loaded, or an error
\* from the index) returns what fallbackSearch computes for the same query
\* embedding, limit, minSimilarity and dedupeBySource.
C15_FallbackOnFailure ==
  (searchEnded /\ vss # "ok" /\ "vss" \in srch.path)
  => /\ srch.pc = "returned"
     /\ srch.result = fallbackSearch(srch.queryEmbedding, srch.limit,
                                     srch.minSimilarity, srch.dedupeBySource)

\* C15 witness: with the index raising, a search called with a limit and a
\* minSimilarity other than the defaults returned a non-empty result
C15_Witness ==
  /\ srch.pc = "returned"
  /\ vss = "error"
  /\ srch.result # <<>>
  /\ srch.minSimilarity = 0
  /\ ~srch.dedupeBySource

\* the tolerance within which two similarities are equal (one hundredth)
Tolerance == Scale \div 100

\* C16: every chunk returned both by the accelerated path and by the exact
\* path, for the same query and options, has the same similarity on both,
\* within the tolerance.
C16_PathsAgree ==
  (srch.pc = "returned" /\ srch.path = {"vss"})
  => LET exact == fallbackSearch(srch.queryEmbedding, srch.limit,
                                 srch.minSimilarity, srch.dedupeBySource)
     IN \A i \in 1 .. Len(srch.result), j \in 1 .. Len(exact) :
          srch.result[i].chunk_id = exact[j].chunk_id
          => /\ srch.result[i].similarity - exact[j].similarity <= Tolerance
             /\ exact[j].similarity - srch.result[i].similarity <= Tolerance

\* C17: with the provider available, the query embedded, minSimilarity 0 and
\* dedupeBySource false, a search returns min(limit, N) results, N the number
\* of chunks with an embedding, in non-increasing order of similarity.
C17_EveryChunkAtZero ==
  (/\ srch.pc = "returned"
   /\ ollamaAvailable
   /\ srch.queryEmbedding # NoVec
   /\ srch.minSimilarity = 0
   /\ ~srch.dedupeBySource)
  => /\ Len(srch.result) = Min2(srch.limit, Cardinality(embeddedChunks(chunks)))
     /\ nonIncreasing(srch.result)

\* C18: with dedupeBySource, the result has at most one entry per source_id;
\* each entry is a chunk that passed minSimilarity whose similarity no other
\* such chunk of its source exceeds; the entries are in non-increasing order of
\* similarity and there are at most `limit` of them.
C18_DedupeKeepsBest ==
  (srch.pc = "returned" /\ srch.dedupeBySource)
  => LET res == srch.result
         passed == {srch.candidates[i] : i \in 1 .. Len(srch.candidates)}
     IN /\ \A i, j \in 1 .. Len(res) :
             res[i].source_id = res[j].source_id => i = j
        /\ \A i \in 1 .. Len(res) :
             /\ res[i] \in passed
             /\ \A r \in passed : r.source_id = res[i].source_id
                                  => r.similarity <= res[i].similarity
        /\ nonIncreasing(res)
        /\ Len(res) <= srch.limit

\* C18 witness: a deduplicated result was returned for which two chunks of one
\* source, of different similarity, had passed minSimilarity
C18_Witness ==
  /\ srch.pc = "returned"
  /\ srch.dedupeBySource
  /\ srch.result # <<>>
  /\ \E i, j \in 1 .. Len(srch.candidates) :
       /\ srch.candidates[i].source_id = srch.candidates[j].source_id
       /\ srch.candidates[i].similarity < srch.candidates[j].similarity

\* C19: a generateEmbedding call makes at most 3 calls of the provider, never
\* raises, and ends by returning a vector or absent.
C19_EmbedTerminates ==
  /\ [](emb.calls <= 3)
  /\ [](emb.pc \in {"idle", "fetching", "sleeping", "returned"})
  /\ [](emb.pc = "returned" => emb.result \in {"vector", "absent"})
  /\ (emb.pc \in {"fetching", "sleeping"}) ~> (emb.pc = "returned")

\* C19 witness: a call returned absent after three calls of the provider
C19_Witness ==
  /\ emb.pc = "returned"
  /\ emb.result = "absent"
  /\ emb.calls = 3

\* the delays a call has slept increase from one to the next
increasing(s) == \A i, j \in 1 .. Len(s) : i < j => s[i] < s[j]

\* C20: after a failed provider call the provider is called again only if the
\* failure is transient and fewer than 3 attempts were made, and only after a
\* backoff delay, the delays of a call increasing; a non-transient failure
\* makes the call return absent with no further provider call.
C20_RetryOnlyTransient ==
  /\ [](increasing(emb.slept))
  /\ [][\A err \in Errors : embeddingFailed(err) =>
          /\ emb'.pc # "returned"
             => /\ isTransientError(err)
                /\ emb.calls < 3
                /\ emb'.pc = "sleeping"
                /\ emb'.calls = emb.calls
          /\ ~isTransientError(err)
             => /\ emb'.pc = "returned"
                /\ emb'.result = "absent"
                /\ emb'.calls = emb.calls]_vars

\* C21: a generateEmbedding call whose cache key is in the cache returns the
\* cached vector whatever the availability flag says; one whose key is not in
\* the cache while the flag is false returns absent at once: no provider
\* call, no retry, no delay.
C21_FailFast ==
  [][\A text \in Texts : generateEmbedding(text) =>
       /\ cacheHas(cache, cacheKey(text)) =>
            /\ emb'.pc = "returned" /\ emb'.result = "vector"
            /\ emb'.calls = 0 /\ emb'.slept = <<>>
       /\ (~cacheHas(cache, cacheKey(text)) /\ ~ollamaAvailable) =>
            /\ emb'.pc = "returned" /\ emb'.result = "absent"
            /\ emb'.calls = 0 /\ emb'.slept = <<>>
            /\ cache' = cache]_vars

\* C21 witness: with the flag false and another key cached, a call has
\* returned absent for a key that is not cached, without a provider call
C21_Witness ==
  /\ ~ollamaAvailable
  /\ cache # <<>>
  /\ emb.pc = "returned"
  /\ emb.result = "absent"
  /\ emb.calls = 0
  /\ ~cacheHas(cache, emb.key)

\* the place of key k in the sequence seq
placeOf(seq, k) == CHOOSE i \in DOMAIN seq : seq[i] = k

\* the keys of the cache
cacheKeys(c) == {c[i] : i \in DOMAIN c}

\* C22: the cache never holds more than its maximum number of entries (nor
\* one key twice); a key enters the cache only in the step in which the
\* provider's embedding for it is received; and a key leaves the cache only
\* when a new key is inserted into the full cache, the key leaving being the
\* cached key whose last hit or insertion is the oldest.
C22_CacheBounded ==
  /\ [](Len(cache) <= CacheMax)
  /\ [](Cardinality(cacheKeys(cache)) = Len(cache))
  /\ [][\A k \in cacheKeys(cache') \ cacheKeys(cache) :
          /\ emb.pc = "fetching"
          /\ emb.key = k
          /\ emb'.pc = "returned" /\ emb'.result = "vector"]_vars
  /\ [][\A k \in cacheKeys(cache) \ cacheKeys(cache') :
          /\ Len(cache) = CacheMax
          /\ cacheKeys(cache') \ cacheKeys(cache) # {}
          /\ \A j \in cacheKeys(cache) \ {k} :
                placeOf(used, k) < placeOf(used, j)]_vars

\* C22 witness: the cache is full and a key that was cached has been evicted
C22_Witness ==
  /\ Len(cache) = CacheMax
  /\ \E k \in cacheKeys(used) : ~cacheHas(cache, k)
  /\ emb.pc = "returned"
  /\ emb.result = "vector"

\* C23: when a batch call has returned, its result has the length of its
\* input and holds at each position what generateEmbedding resolved with for
\* the text at that position (its vector, or absent), whatever the number of
\* texts and the order in which the calls of a group settled.
C23_BatchKeepsOrder ==
  batch.pc = "returned" =>
    /\ Len(batch.results) = Len(batch.texts)
    /\ \A k \in DOMAIN batch.texts :
         batch.results[k] = embedOutcome(batch.texts[k])

\* C23 witness: a batch of MaxInputs texts, not a multiple of the group size,
\* has returned with an absent entry among its vectors
C23_Witness ==
  /\ batch.pc = "returned"
  /\ Len(batch.texts) = MaxInputs
  /\ Len(batch.texts) % batchSize # 0
  /\ \E k \in DOMAIN batch.results : batch.results[k] = NoVec
  /\ \E k \in DOMAIN batch.results : batch.results[k] # NoVec

\* C29: a batch call never has more than batchSize generateEmbedding calls
\* in flight; calls are started only when none is in flight; a delay is
\* slept only when the last call of a group has settled and texts remain,
\* and every group but the first is started by the end of such a delay: a
\* call given n > 0 texts has slept ceil(n / batchSize) - 1 delays when it
\* returns, and a call given none has slept none.
C29_GroupsThrottled ==
  /\ [](Cardinality(batch.inFlight) <= batchSize)
  /\ [](batch.pc = "sleeping" => batch.inFlight = {})
  /\ [][(batch'.inFlight \ batch.inFlight # {}) =>
          /\ batch.inFlight = {}
          /\ batch.pc \in {"idle", "sleeping"}
          /\ batch.pc = "sleeping" => batch'.slept = batch.slept]_vars
  /\ [][(batch'.slept # batch.slept) =>
          /\ batch'.slept = batch.slept + 1
          /\ batch.pc = "awaiting" /\ batch'.pc = "sleeping"
          /\ batch.inFlight # {} /\ batch'.inFlight = {}
          /\ Len(batch'.results) < Len(batch.texts)]_vars
  /\ [](batch.pc = "returned" =>
          batch.slept = IF Len(batch.texts) = 0 THEN 0
                        ELSE (Len(batch.texts) + batchSize - 1) \div batchSize
                             - 1)

\* C29 witness: a batch of three groups has returned after two delays
C29_Witness ==
  /\ batch.pc = "returned"
  /\ Len(batch.texts) > 2 * batchSize
  /\ batch.slept = 2

\* C24: normalizeUrl applied to what normalizeUrl returned returns it
\* unchanged.
C24_NormalizeIdempotent ==
  (fn.name = "normalizeUrl" /\ fn.pass = 2) => fn.out = fn.arg

\* the characters of str that are not blanks
nonBlank(str) == SelectSeq(str, LAMBDA ch : ~isSpace(ch))

\* the chunks one after the other
RECURSIVE concatenated(_)
concatenated(strs) ==
  IF strs = <<>> THEN <<>> ELSE strs[1] \o concatenated(Tail(strs))

\* `a` can be read in `b`, in order, skipping characters of `b`
RECURSIVE readIn(_, _)
readIn(a, b) ==
  IF a = <<>> THEN TRUE
  ELSE IF b = <<>> THEN FALSE
  ELSE IF a[1] = b[1] THEN readIn(Tail(a), Tail(b))
  ELSE readIn(a, Tail(b))

\* `a` is the end of `b`
endsWith(b, a) ==
  Len(a) <= Len(b) /\ SubSeq(b, Len(b) - Len(a) + 1, Len(b)) = a

\* C25: the chunks chunkText returns cover the text: its non-blank
\* characters can be read, in order, in the chunks put one after the other
\* (which may repeat characters where chunks overlap); and no chunk is
\* shorter than minChunk.
C25_ChunksCover ==
  fn.name = "chunkText" =>
    /\ readIn(nonBlank(fn.arg.text), nonBlank(concatenated(fn.out)))
    /\ \A k \in DOMAIN fn.out : Len(fn.out[k]) >= fn.arg.options.minChunk

\* C30: when the last piece chunkText cuts from the text is shorter than
\* minChunk (and not empty) and a chunk was pushed before it, the last chunk
\* returned ends with that piece.
C30_RemainderMerged ==
  fn.name = "chunkText" =>
    LET loop == chunkLoop(fn.arg.text, fn.arg.options, 0, <<>>, <<>>)
        remainder == loop.pieces[Len(loop.pieces)]
    IN (/\ Len(loop.pieces) > 0
        /\ Len(remainder) > 0
        /\ Len(remainder) < fn.arg.options.minChunk
        /\ Len(loop.chunks) > 0)
       => /\ fn.out # <<>>
          /\ endsWith(fn.out[Len(fn.out)], remainder)
          /\ Len(fn.out[Len(fn.out)]) > Len(remainder)

\* the places where an error phrase stands in the content: a pattern found at
\* a place, not inside a longer pattern found around it
phrasesIn(content) ==
  LET lower == toLowerCase(content)
      found == {<<p, i>> \in ERROR_PATTERNS \X DOMAIN lower :
                  foundAt(lower, p, i)}
      inside(a, b) == /\ a # b
                      /\ b[2] <= a[2]
                      /\ a[2] + Len(a[1]) <= b[2] + Len(b[1])
  IN {a \in found : ~\E b \in found : inside(a, b)}

\* C26: a content long enough for its type is rejected as an error page
\* exactly when two or more of the error patterns are found in it, and is not
\* rejected as an error page when a single error phrase stands in it, once.
C26_TwoSignalsNeeded ==
  fn.name = "validateContent" =>
    LET content == fn.arg.content
        longEnough == contentLength(content) >= MIN_LENGTHS[fn.arg.type]
        rejected == ~fn.out.valid /\ fn.out.reason = "Detected error page"
    IN /\ rejected <=> (longEnough /\ Cardinality(errorSignals(content)) >= 2)
       /\ (longEnough /\ Cardinality(phrasesIn(content)) = 1) => ~rejected

\* a storage operation is called in process p
storageCalled(p) ==
  \/ \E url \in StorageUrls, h \in StorageHashes : createSourceCalled(p, url, h)
  \/ \E id \in 1 .. NumSites : getSourceByIdCalled(p, id)
  \/ \E h \in StorageHashes : getSourceByHashCalled(p, h)
  \/ \E url \in StorageUrls : getSourceByUrlCalled(p, url)
  \/ listSourcesCalled(p)
  \/ countSourcesCalled(p)
  \/ countChunksCalled(p)
  \/ \E id \in 1 .. NumSites, url \in StorageUrls, h \in StorageHashes :
        updateSourceCalled(p, id, url, h)
  \/ \E id \in 1 .. NumSites, prepared \in BOOLEAN :
        deleteSourceCalled(p, id, prepared)
  \/ \E chunk \in StorageChunks, nullTaken \in BOOLEAN :
        createChunkCalled(p, chunk, nullTaken)
  \/ \E id \in 1 .. NumSites : getChunksBySourceIdCalled(p, id)
  \/ \E id \in 1 .. NumSites : deleteChunksBySourceIdCalled(p, id)
  \/ getAllChunksCalled(p)
  \/ \E id \in 1 .. MaxChunkRows : getChunkByIdCalled(p, id)
  \/ getDatabaseCalled(p)

\* C27: a storage operation called in a process where initKBTables has not
\* set the connection throws 'Database not initialized', returns nothing
\* read from the tables and leaves the tables as they are.
C27_NotInitializedAborts ==
  [][\A p \in Pids : (notInitialized(p) /\ storageCalled(p)) =>
        /\ lastOp'.pid = p
        /\ lastOp'.threw = NotInitialized
        /\ lastOp'.out = <<>>
        /\ tablesUnchanged]_vars

\* an operation called before initKBTables has thrown, in a database that
\* holds rows
C27_Witness ==
  /\ lastOp.threw = NotInitialized
  /\ notInitialized(lastOp.pid)
  /\ sources # {}
  /\ chunks # {}

\* C28: when kb_chunks_vss exists it holds one row for each chunk that has an
\* embedding, under the chunk's id, and no other row.
C28_IndexMirrorsChunks ==
  vssTable.exists =>
    vssTable.rows = {[rowid |-> k.id, embedding |-> k.embedding] :
                       k \in {c \in chunks : c.embedding # NoVec}}

\* the cuts of the pieces that became chunks, in order
pushedCuts == SelectSeq(fn.out.cuts, LAMBDA c : c.pushed)

\* C31: when chunkText returns two or more chunks, each chunk after the first
\* starts before the position where the chunk before it ended.
C31_ChunksOverlap ==
  (fn.name = "chunkText.while" /\ fn.out.pc = "returned") =>
    \A k \in 2 .. Len(pushedCuts) : pushedCuts[k].start < pushedCuts[k - 1].end

\* the positions right after the blanks that follow a sentence end, in the
\* window of `overlap` characters before and after the tentative end `end`
\* of a chunk that starts at `start`
sentenceCuts(text, o, start, end) ==
  LET from == Max2(start, end - o.overlap)
      to == Min2(end + o.overlap, Len(text))
  IN {e \in from + 2 .. to :
        \E d \in from + 1 .. e - 1 :
           /\ text[d] \in {".", "!", "?"}
           /\ \A j \in d + 1 .. e : text[j] = " "
           /\ e = to \/ text[e + 1] # " "}

\* the positions right after a blank of that window
wordCuts(text, o, start, end) ==
  LET from == Max2(start, end - o.overlap)
      to == Min2(end + o.overlap, Len(text))
  IN {e \in from + 1 .. to : text[e] = " "}

Max(S) == CHOOSE x \in S : \A y \in S : y <= x

\* C32: a chunk whose tentative end is before the end of the text is cut
\* after the last sentence boundary of the window; after the last blank of
\* the window when it has no sentence boundary; at the tentative end when it
\* has neither.
C32_CutsAtLastBoundary ==
  fn.name = "chunkText.while" =>
    \A k \in DOMAIN fn.out.cuts :
      LET text == fn.arg.text
          o == fn.arg.options
          c == fn.out.cuts[k]
          end == Min2(c.start + o.chunkSize, Len(text))
          sentences == sentenceCuts(text, o, c.start, end)
          blanks == wordCuts(text, o, c.start, end)
      IN end < Len(text) =>
           c.end = IF sentences # {} THEN Max(sentences)
                   ELSE IF blanks # {} THEN Max(blanks)
                   ELSE end

\* C40: every iteration of the loop of chunkText moves the position forward,
\* never beyond the end of the text, and the call returns.
C40_ChunkTextTerminates ==
  /\ [][chunkIterates => /\ fn'.out.position > fn.out.position
                         /\ fn'.out.position <= Len(fn.arg.text)]_vars
  /\ (fn.name = "chunkText.while") ~> (fn.name = "chunkText.while"
                                         /\ fn.out.pc = "returned")

\* chunkText returned after three or more iterations, one of them cut at a
\* sentence boundary
C40_Witness ==
  /\ fn.name = "chunkText.while"
  /\ fn.out.pc = "returned"
  /\ Len(fn.out.cuts) >= 3
  /\ \E k \in DOMAIN fn.out.cuts :
        fn.out.cuts[k].end \in sentenceCuts(fn.arg.text, fn.arg.options,
             fn.out.cuts[k].start,
             Min2(fn.out.cuts[k].start + fn.arg.options.chunkSize,
                  Len(fn.arg.text)))

\* since the first sweep began, nothing but the sweeps has changed the
\* directory: a file is as the first sweep found it, or a sweep deleted it
sweepUndisturbed ==
  /\ \A n \in DOMAIN sweep.snap :
        \/ dirFile(n) = sweep.snap[n]
        \/ dirFile(n) = NoLock /\ \E d \in sweep.deleted : d.name = n
  /\ \A d \in sweep.deleted : d.file = sweep.snap[d.name]

\* C33: cleanupStale deletes no file that is not older than the staleness
\* window; left alone, it deletes every file that is older; and a second
\* sweep right after the first deletes nothing.
C33_SweepDeletesStale ==
  /\ \A d \in sweep.deleted : age(d.file) > STALE_AGE_MS
  /\ (sweep.pc = "returned" /\ sweepUndisturbed) =>
        /\ \A n \in DOMAIN sweep.snap :
              (sweep.snap[n] # NoLock /\ age(sweep.snap[n]) > STALE_AGE_MS)
                => dirFile(n) = NoLock
        /\ \A d \in sweep.deleted : d.pass = 1

\* C34: a step of a search call, on whichever path, leaves the Sources, the
\* Chunks, the accelerated index and the lock directory as they are.
C34_SearchReadOnly ==
  [][srch' # srch => UNCHANGED <<sources, chunks, nextSourceId, nextChunkId,
                                 vss, vssTable, lockFile, otherLock>>]_vars

\* a search returned hits found by the accelerated index while a caller held
\* the ingest lock
C34_Witness ==
  /\ srch.pc = "returned"
  /\ srch.path = {"vss"}
  /\ srch.result # <<>>
  /\ lockFile # NoLock
  /\ \E c \in Calls : pc[c] = "holding"

\* C35: no two stored Sources have the same normalized URL, and no Source
\* has two Chunks with the same chunk_index.
C35_UniqueUrlAndIndex ==
  /\ \A r1, r2 \in sources :
        (r1.url # NoUrl /\ r1.url = r2.url) => r1.id = r2.id
  /\ \A k1, k2 \in chunks :
        (k1.source_id = k2.source_id /\ k1.chunk_index = k2.chunk_index)
          => k1.id = k2.id

\* call c runs the release handle its acquire returned
releaseStep(c) == pc[c] \notin {"idle", "done", "raised"} /\ pc'[c] = "done"

\* C36: a release handle removes only the lock its own acquire wrote: when
\* that lock was reclaimed as stale or orphaned and re-acquired by another
\* caller, the first caller's release leaves the new holder's file in place.
C36_ReleaseOnlyOwnLock ==
  [][\A c \in Calls :
       (/\ releaseStep(c)
        /\ lockFile # NoLock
        /\ lockFile.creator # c
        /\ acqSaw[lockFile.creator] \in {"stale", "dead"})
       => lockFile' = lockFile]_vars

\* call c returns a failure outcome in this step
returnsFailure(c) ==
  /\ pc[c] # "done"
  /\ pc'[c] = "done"
  /\ returned'.call = c
  /\ ~returned'.result.success

\* no other ingestion call has started: the tables call c found are those
\* the earlier run left, less what deleteKBSource has removed
onlyCall(c) == \A d \in Calls \ {c} : pc[d] = "idle"

\* C37: an ingestion or update call that returns a failure outcome leaves
\* the stored Sources and Chunks as they were before the call; a failing
\* update of an existing URL leaves that Source's previous Chunks in place.
C37_FailureLeavesStorage ==
  [][\A c \in Calls :
       (returnsFailure(c) /\ onlyCall(c))
       => \/ sources' = priorSources /\ chunks' = priorChunks
          \/ sources' = {} /\ chunks' = {}]_vars

\* C38: the vector embed(text) returns, from the cache or from the provider,
\* is the embedding of that same text truncated to the maximum input length,
\* never one computed for a different text of the same first 500 characters.
C38_VectorOfSameText ==
  (emb.pc = "returned" /\ emb.result = "vector")
    => emb.vectorOf = truncateInput(emb.text)

\* call c returns success in this step
returnsSuccess(c) ==
  /\ pc[c] # "done"
  /\ pc'[c] = "done"
  /\ returned'.call = c
  /\ returned'.result.success

\* C39: every ingestion call that returns success has persisted at least one
\* Chunk for the returned source_id (chunks_count >= 1), also for content
\* that passes the quality gate but is shorter than the minimum chunk size
\* and for calls in which every embedding failed.
C39_SuccessHasChunk ==
  [][\A c \in Calls :
       returnsSuccess(c)
       => /\ returned'.result.chunks_count >= 1
          /\ \E k \in chunks' : k.source_id = returned'.result.source_id]_vars

====
